---- MODULE Spec2Model ----
(***************************************************************************)
(* Model of psm_utils.io.idxml (IdXMLReader, IdXMLWriter) and              *)
(* psm_utils.io.percolator (PercolatorTabReader, PercolatorTabWriter,      *)
(* _PercolatorTabIO).                                                      *)
(*                                                                         *)
(* Text is modelled as a sequence of one-character strings, so that the    *)
(* regular-expression substitutions, str.replace, str.strip and slicing    *)
(* of the source are computed character by character.                      *)
(***************************************************************************)
EXTENDS Integers, Sequences, FiniteSets, TLC

VARIABLES
    \* ---- notation transcoding of one hit (read, write back, read again)
    sequence,      \* native-notation string of the hit (AASequence.toString())
    charge,        \* the hit's charge (PeptideHit.getCharge())
    peptidoform,   \* result of IdXMLReader._parse_peptidoform
    unimod,        \* result of IdXMLWriter._convert_proforma_to_unimod
    reparsed,      \* _parse_peptidoform of the written-back native string
    tpc,           \* position in the read / write-back / re-read pipeline
    \* ---- the idXML document held by IdXMLReader or handed to IdXMLWriter
    protein_ids,        \* self.protein_ids: the document's protein identifications
    \* ---- IdXMLReader
    rescoring_features, \* self.rescoring_features: keys derived from the first hit
    peptide_id,         \* the identification record under the iterator
    peptide_hit,        \* the hit under the iterator
    psm,                \* <<the PSM yielded for that hit>>, or <<>>
    n_read,             \* hits yielded so far
    rpc,                \* position of the iterator
    \* ---- IdXMLWriter.write_file, update in place
    peptide_ids,        \* self.peptide_ids: the identification records
    loaded,             \* the document as it was handed to the writer
    psm_dict,           \* psm_list.get_psm_dict()
    upd_i,              \* index of the record the loop of _update_existing_ids is at
    psms,               \* the local variable psms of _update_existing_ids
    psms_bound,         \* whether psms has been assigned
    messages,           \* number of messages printed
    stored,             \* the calls of IdXMLFile().store, in order
    upc,                \* position of write_file, or how it ended
    \* ---- IdXMLWriter.write_file, create new
    psm_list,           \* the PSM list handed to write_file
    col_i,              \* index of the collection the outer loop is at
    run_i,              \* index of the run the loop over runs is at
    spec_i,             \* index of the spectrum the loop over spectra is at
    protein_list,       \* the local variable protein_list of _create_new_ids
    cpc,                \* position of _create_new_ids
    \* ---- PercolatorTabWriter.write_file
    style,              \* self.style
    feature_names,      \* self.feature_names
    perc_psms,          \* the PSM list handed to write_file
    file,               \* the file: the strings written to it, a line each
    w_i,                \* index of the PSM the loop of write_file is at
    ppc,                \* position of the write and read, or how it ended
    \* ---- PercolatorTabReader
    fieldnames,            \* self.fieldnames
    id_column,             \* self.id_column
    charge_column,         \* self.charge_column
    charge_onehot_columns, \* self.charge_onehot_columns
    score_column,          \* self.score_column
    number_of_columns,     \* number_of_columns of _PercolatorTabIO.__iter__
    dict_fieldnames,       \* the field names of csv.DictReader
    line_i,                \* index of the line the iteration is at
    entry,                 \* the entry of the last row
    entry_charge,          \* charge of _parse_entry: <<n>>, or <<>> for None
    yielded,               \* <<the PSM yielded for the last row>>, or <<>>
    \* ---- PercolatorTabWriter as a context manager, and its target
    before,                \* the target before the first call: is_file and its lines
    is_file,               \* self.filename.is_file()
    _open_file,            \* self._open_file: None, or a file handle
    _writer,               \* self._writer: None, or the csv.DictWriter
    handles,               \* the file handles that are open
    n_opened,              \* number of file handles opened so far
    scope,                 \* "in" while the caller is inside a with block of the writer
    called,                \* the method called last
    raised,                \* the exception the last call raised, or "none"
    n_calls,               \* number of calls made
    \* ---- a reader iterated more than once over a file that may change
    reader_kind,           \* "idxml" or "percolator"
    idxml_file,            \* the idXML file: what IdXMLFile().load gives for it now
    self_peptide_ids,      \* self.peptide_ids of IdXMLReader
    rec_i,                 \* index of the record the outer loop of __iter__ is at
    hit_i,                 \* index of the hit the inner loop of __iter__ is at
    n_iter                 \* number of for loops over the reader that are over

dvars == <<protein_ids>>
tvars == <<sequence, charge, peptidoform, unimod, reparsed, tpc>>
rvars == <<rescoring_features, peptide_id, peptide_hit, psm, n_read, rpc>>
uvars == <<peptide_ids, loaded, psm_dict, upd_i, psms, psms_bound, messages, stored, upc>>

cvars == <<psm_list, col_i, run_i, spec_i, protein_list, cpc>>

reader_vars == <<fieldnames, id_column, charge_column, charge_onehot_columns, score_column,
                 number_of_columns, dict_fieldnames, line_i, entry, entry_charge, yielded>>
pvars == <<style, feature_names, perc_psms, file, w_i, ppc, reader_vars>>
svars == <<before, is_file, _open_file, _writer, handles, n_opened, scope, called, raised,
           n_calls>>

xvars == <<reader_kind, idxml_file, self_peptide_ids, rec_i, hit_i, n_iter>>

vars == <<dvars, tvars, rvars, uvars, cvars, pvars, svars, xvars>>

\* The variables an action of one part leaves alone
not_tvars == <<dvars, rvars, uvars, cvars, pvars, svars, xvars>>
not_rvars == <<tvars, uvars, cvars, pvars, svars, xvars>>
not_uvars == <<tvars, rvars, cvars, pvars, svars, xvars>>
not_cvars == <<tvars, rvars, pvars, svars, xvars>>
not_pvars == <<dvars, tvars, rvars, uvars, cvars, svars, xvars>>
not_svars == <<dvars, tvars, rvars, uvars, cvars, xvars>>

\* Value of a text variable that has not been computed yet.
NoText == <<"<none>">>

(***************************************************************************)
(* Each specification below runs one part of the package; the variables of *)
(* the parts it does not run stay at these values.                         *)
(***************************************************************************)

TranslateIdle ==
    /\ sequence = NoText
    /\ charge = 0
    /\ peptidoform = NoText
    /\ unimod = NoText
    /\ reparsed = NoText
    /\ tpc = "idle"

DocIdle == protein_ids = <<>>

ReaderIdle ==
    /\ rescoring_features = {}
    /\ peptide_id = [meta |-> <<>>]
    /\ peptide_hit = [meta |-> <<>>]
    /\ psm = <<>>
    /\ n_read = 0
    /\ rpc = "idle"

UpdateIdle ==
    /\ peptide_ids = <<>>
    /\ loaded = <<>>
    /\ psm_dict = <<>>
    /\ upd_i = 0
    /\ psms = <<>>
    /\ psms_bound = FALSE
    /\ messages = 0
    /\ stored = <<>>
    /\ upc = "idle"

CreateIdle ==
    /\ psm_list = <<>>
    /\ col_i = 0
    /\ run_i = 0
    /\ spec_i = 0
    /\ protein_list = <<>>
    /\ cpc = "idle"

PercolatorIdle ==
    /\ style = "idle"
    /\ feature_names = <<>>
    /\ perc_psms = <<>>
    /\ file = <<>>
    /\ w_i = 0
    /\ ppc = "idle"
    /\ fieldnames = <<>>
    /\ id_column = <<>>
    /\ charge_column = <<>>
    /\ charge_onehot_columns = <<>>
    /\ score_column = <<>>
    /\ number_of_columns = 0
    /\ dict_fieldnames = <<>>
    /\ line_i = 0
    /\ entry = <<>>
    /\ entry_charge = <<>>
    /\ yielded = <<>>

SessionIdle ==
    /\ before = [is_file |-> FALSE, file |-> <<>>]
    /\ is_file = FALSE
    /\ _open_file = <<"<None>">>
    /\ _writer = <<"<None>">>
    /\ handles = {}
    /\ n_opened = 0
    /\ scope = "out"
    /\ called = "none"
    /\ raised = "none"
    /\ n_calls = 0

RestartIdle ==
    /\ reader_kind = "none"
    /\ idxml_file = [protein_ids |-> <<>>, peptide_ids |-> <<>>]
    /\ self_peptide_ids = <<>>
    /\ rec_i = 0
    /\ hit_i = 0
    /\ n_iter = 0

(***************************************************************************)
(* Python string primitives on sequences of characters.                    *)
(***************************************************************************)

\* s[i:] for a 1-based i
Tail_from(s, i) == SubSeq(s, i, Len(s))

\* s[:n] and s[-n:], which never fail on a short string
Prefix(s, n) == SubSeq(s, 1, IF n < Len(s) THEN n ELSE Len(s))
Suffix(s, n) == SubSeq(s, IF n < Len(s) THEN Len(s) - n + 1 ELSE 1, Len(s))

\* s[::-1]
RECURSIVE Reverse(_)
Reverse(s) ==
    IF s = <<>> THEN <<>> ELSE Reverse(Tail(s)) \o <<Head(s)>>

\* s.startswith(pat, i-1)
StartsWithAt(s, i, pat) ==
    /\ i + Len(pat) - 1 <= Len(s)
    /\ SubSeq(s, i, i + Len(pat) - 1) = pat

\* str.replace(old, new): every occurrence of the character old
RECURSIVE ReplaceChar(_, _, _)
ReplaceChar(s, old, new) ==
    IF s = <<>> THEN <<>>
    ELSE <<IF Head(s) = old THEN new ELSE Head(s)>> \o ReplaceChar(Tail(s), old, new)

\* str.replace(old, new, 1): the first (leftmost) occurrence of old only
RECURSIVE ReplaceFirstFrom(_, _, _, _)
ReplaceFirstFrom(s, i, old, new) ==
    IF i + Len(old) - 1 > Len(s) THEN s
    ELSE IF StartsWithAt(s, i, old)
         THEN SubSeq(s, 1, i - 1) \o new \o Tail_from(s, i + Len(old))
         ELSE ReplaceFirstFrom(s, i + 1, old, new)

ReplaceFirst(s, old, new) == ReplaceFirstFrom(s, 1, old, new)

\* str.strip(ch)
RECURSIVE LStrip(_, _)
LStrip(s, ch) ==
    IF s # <<>> /\ Head(s) = ch THEN LStrip(Tail(s), ch) ELSE s

Strip(s, ch) == Reverse(LStrip(Reverse(LStrip(s, ch)), ch))

(***************************************************************************)
(* MOD_PATTERN, MOD_PATTERN_NTERM, MOD_PATTERN_CTERM.                      *)
(*                                                                         *)
(* Each pattern is  open ( [^open close]+ | open ( [^open close]+ |        *)
(* open [^open close]* close )* close )* close : a group that opens at a   *)
(* delimiter and closes at its balancing delimiter, with at most two       *)
(* further levels of groups inside.  The content admits no unbalanced      *)
(* delimiter, so the end of a match that starts at a given position is     *)
(* unique: the first place where the depth returns to zero.                *)
(***************************************************************************)

\* Levels of delimiters the patterns spell out: the group and two inside it.
PatternDepth == 3

\* Scan from k at depth d (d >= 1 groups open); the index of the delimiter
\* that closes the outermost group, or 0 when the pattern cannot match.
RECURSIVE GroupScan(_, _, _, _, _)
GroupScan(s, k, d, open, close) ==
    IF k > Len(s) THEN 0
    ELSE IF s[k] = open
         THEN IF d + 1 > PatternDepth THEN 0
              ELSE GroupScan(s, k + 1, d + 1, open, close)
    ELSE IF s[k] = close
         THEN IF d = 1 THEN k ELSE GroupScan(s, k + 1, d - 1, open, close)
    ELSE GroupScan(s, k + 1, d, open, close)

\* End of the group that opens at s[i], or 0.
GroupEnd(s, i, open, close) ==
    IF i <= Len(s) /\ s[i] = open THEN GroupScan(s, i + 1, 1, open, close) ELSE 0

\* MOD_PATTERN.sub(r"[\1]", s): leftmost non-overlapping matches, left to right.
RECURSIVE ModPatternSubFrom(_, _)
ModPatternSubFrom(s, i) ==
    IF i > Len(s) THEN <<>>
    ELSE LET e == GroupEnd(s, i, "(", ")") IN
         IF e # 0
         THEN <<"[">> \o SubSeq(s, i + 1, e - 1) \o <<"]">> \o ModPatternSubFrom(s, e + 1)
         ELSE <<s[i]>> \o ModPatternSubFrom(s, i + 1)

MOD_PATTERN_sub(s) == ModPatternSubFrom(s, 1)

\* MOD_PATTERN_NTERM.sub(r"[\1]-", s): anchored at the start of the string.
MOD_PATTERN_NTERM_sub(s) ==
    LET e == IF StartsWithAt(s, 1, <<".", "[">>) THEN GroupEnd(s, 2, "[", "]") ELSE 0 IN
    IF e # 0
    THEN <<"[">> \o SubSeq(s, 3, e - 1) \o <<"]", "-">> \o Tail_from(s, e + 1)
    ELSE s

\* MOD_PATTERN_CTERM.sub(r"-[\1]", s): the leftmost ".[" whose group ends the string.
RECURSIVE CtermMatchFrom(_, _)
CtermMatchFrom(s, i) ==
    IF i + 1 > Len(s) THEN 0
    ELSE IF StartsWithAt(s, i, <<".", "[">>) /\ GroupEnd(s, i + 1, "[", "]") = Len(s)
         THEN i
         ELSE CtermMatchFrom(s, i + 1)

MOD_PATTERN_CTERM_sub(s) ==
    LET i == CtermMatchFrom(s, 1) IN
    IF i # 0
    THEN SubSeq(s, 1, i - 1) \o <<"-", "[">> \o SubSeq(s, i + 2, Len(s) - 1) \o <<"]">>
    ELSE s

\* f"/{charge}" for the charges of the model
ChargeText(c) ==
    <<"/", CASE c = 1 -> "1" [] c = 2 -> "2" [] c = 3 -> "3" [] c = 4 -> "4" [] OTHER -> "9">>

\* IdXMLReader._parse_peptidoform(sequence, charge)
_parse_peptidoform(s, c) ==
    LET s1 == MOD_PATTERN_sub(s)
        s2 == IF Prefix(s1, 2) = <<".", "[">> THEN MOD_PATTERN_NTERM_sub(s1) ELSE s1
        s3 == IF s2[Len(s2)] = "]" THEN MOD_PATTERN_CTERM_sub(s2) ELSE s2
    IN  Strip(s3, ".") \o ChargeText(c)

\* IdXMLWriter._convert_proforma_to_unimod(sequence)
_convert_proforma_to_unimod(s) ==
    LET s1 == ReplaceChar(ReplaceChar(s, "[", "("), "]", ")")
        s2 == IF Prefix(s1, 2) = <<"(", "(">>
              THEN ReplaceFirst(ReplaceFirst(s1, <<"(", "(">>, <<".", "[">>),
                                <<")", "-">>, <<".">>)
              ELSE s1
        s3 == IF Suffix(s2, 2) = <<")", ")">>
              THEN Reverse(ReplaceFirst(ReplaceFirst(Reverse(s2), <<")", ")">>, <<".", "]">>),
                                        <<"-", "(">>, <<".">>))
              ELSE s2
    IN  s3

(***************************************************************************)
(* The Peptidoform object between reader and writer (psm_utils.peptidoform,*)
(* outside this package): the PSM constructor parses the interchange       *)
(* string; the writer reads the modified sequence and the precursor charge *)
(* back from it.                                                           *)
(***************************************************************************)

\* Index of the "/" that starts the charge suffix, or 0.
RECURSIVE SlashFrom(_, _)
SlashFrom(s, i) ==
    IF i < 1 THEN 0 ELSE IF s[i] = "/" THEN i ELSE SlashFrom(s, i - 1)

\* psm.peptidoform.sequence as handed to _convert_proforma_to_unimod
PeptidoformSequence(p) ==
    LET i == SlashFrom(p, Len(p)) IN IF i = 0 THEN p ELSE SubSeq(p, 1, i - 1)

\* psm.peptidoform.precursor_charge
PrecursorCharge(p) ==
    LET i == SlashFrom(p, Len(p)) IN
    IF i = 0 \/ i = Len(p) THEN 0
    ELSE CASE p[i + 1] = "1" -> 1 [] p[i + 1] = "2" -> 2 [] p[i + 1] = "3" -> 3
           [] p[i + 1] = "4" -> 4 [] OTHER -> 9

(***************************************************************************)
(* Native-notation inputs: what AASequence.toString() gives for a          *)
(* peptidoform with an optional N-terminal modification, residues with     *)
(* optional inline modifications, and an optional C-terminal modification. *)
(***************************************************************************)

MaxResidues == 3
MaxCharge == 2

NTermTexts == {<<>>, <<".", "(", "a", ")">>, <<".", "[", "a", "]">>}
CTermTexts == {<<>>, <<".", "(", "c", ")">>, <<".", "[", "c", "]">>}
ResidueTexts ==
    { <<"A">>,
      <<"K", "(", "m", ")">>,
      <<"K", "[", "m", "]">>,
      <<"C", "(", "m", "(", "n", ")", ")">> }

RECURSIVE Flatten(_)
Flatten(ss) == IF ss = <<>> THEN <<>> ELSE Head(ss) \o Flatten(Tail(ss))

ResidueLists == UNION { [1..n -> ResidueTexts] : n \in 1..MaxResidues }

NativeSequences ==
    { n \o Flatten(b) \o c : n \in NTermTexts, b \in ResidueLists, c \in CTermTexts }

(***************************************************************************)
(* Values of the external object graph (pyopenms) and of Python.           *)
(***************************************************************************)

\* Python's None (also what getMetaValue gives for a key that is not set)
None == <<"<None>">>

\* Python's True / False / None as the value of PSM.is_decoy
PyTrue == "True"
PyFalse == "False"
PyNone == "None"

\* A dict from a set of <<key, value>> pairs with distinct keys
MakeDict(pairs) ==
    [k \in {p[1] : p \in pairs} |-> (CHOOSE p \in pairs : p[1] = k)[2]]

\* MetaInfoInterface.metaValueExists / getMetaValue
metaValueExists(obj, key) == key \in DOMAIN obj.meta
getMetaValue(obj, key) == IF key \in DOMAIN obj.meta THEN obj.meta[key] ELSE None

\* RESCORING_FEATURE_LIST, with the adjacent string literals of the source
\* joined the way Python joins them
RESCORING_FEATURE_LIST ==
    { "isotope_errorMS:1002049",
      "MS:1002050",
      "MSGF:ScoreRatio",
      "MSGF:Energy",
      "MSGF:lnEValue",
      "MSGF:lnExplainedIonCurrentRatio",
      "MSGF:lnNTermIonCurrentRatio",
      "MSGF:lnCTermIonCurrentRatio",
      "MSGF:lnMS2IonCurrent",
      "MSGF:MeanErrorTop7",
      "MSGF:sqMeanErrorTop7",
      "MSGF:StdevErrorTop7",
      "XTANDEM:hyperscore",
      "XTANDEM:deltascore",
      "MS:1001330",
      "hyperscore",
      "nextscore",
      "COMET:deltaCn",
      "COMET:deltaLCn",
      "COMET:lnExpect",
      "MS:1002252",
      "MS:1002255",
      "COMET:lnNumSP",
      "COMET:lnRankSP",
      "COMET:IonFrac",
      "MS:1001171",
      "MASCOT:delta_score",
      "CONCAT:lnEvalue",
      "CONCAT:deltaLnEvalue",
      "SAGE:ln(-poisson)SAGE:ln(delta_best)",
      "SAGE:ln(delta_next)",
      "SAGE:ln(matched_intensity_pct)",
      "SAGE:longest_b",
      "SAGE:longest_y",
      "SAGE:longest_y_pct",
      "SAGE:matched_peaks",
      "SAGE:scored_candidates" }

(***************************************************************************)
(* float(text): [sign] digits [. digits], the forms the model's values     *)
(* take; anything else is a ValueError.  A float is kept exactly, as the   *)
(* tag "float" followed by its canonical decimal digits, which keeps it    *)
(* apart from every text.                                                  *)
(***************************************************************************)

DigitChars == {"0", "1", "2", "3", "4", "5", "6", "7", "8", "9"}

AllDigits(s) == \A i \in 1..Len(s) : s[i] \in DigitChars

Unsigned(s) == IF s # <<>> /\ Head(s) \in {"+", "-"} THEN Tail(s) ELSE s

DotIndex(s) ==
    IF \E i \in 1..Len(s) : s[i] = "."
    THEN CHOOSE i \in 1..Len(s) : s[i] = "." /\ \A j \in 1..(i - 1) : s[j] # "."
    ELSE 0

\* float(text) succeeds
FloatParses(t) ==
    LET u == Unsigned(t)
        d == DotIndex(u)
        whole == IF d = 0 THEN u ELSE SubSeq(u, 1, d - 1)
        frac == IF d = 0 THEN <<>> ELSE SubSeq(u, d + 1, Len(u))
    IN  /\ AllDigits(whole) /\ AllDigits(frac)
        /\ Len(whole) + Len(frac) > 0

RECURSIVE DropTrailingZeros(_)
DropTrailingZeros(s) ==
    IF s # <<>> /\ s[Len(s)] = "0" THEN DropTrailingZeros(SubSeq(s, 1, Len(s) - 1)) ELSE s

\* float(text), for a text that parses
float(t) ==
    LET u == Unsigned(t)
        d == DotIndex(u)
        whole == LStrip(IF d = 0 THEN u ELSE SubSeq(u, 1, d - 1), "0")
        frac == DropTrailingZeros(IF d = 0 THEN <<>> ELSE SubSeq(u, d + 1, Len(u)))
        zero == whole = <<>> /\ frac = <<>>
    IN  <<"float">>
        \o (IF Head(t) = "-" /\ ~zero THEN <<"-">> ELSE <<>>)
        \o (IF whole = <<>> THEN <<"0">> ELSE whole)
        \o <<".">>
        \o (IF frac = <<>> THEN <<"0">> ELSE frac)

\* IdXMLReader._is_float(element)
_is_float(element) ==
    IF element = None THEN FALSE ELSE FloatParses(element)

(***************************************************************************)
(* pathlib.Path(text).stem                                                 *)
(***************************************************************************)

\* Index of the last occurrence of ch in s, or 0
LastIndexOf(s, ch) ==
    IF \E i \in 1..Len(s) : s[i] = ch
    THEN CHOOSE i \in 1..Len(s) : s[i] = ch /\ \A j \in (i + 1)..Len(s) : s[j] # ch
    ELSE 0

\* Path(text).name: the final path component
PathName(path) ==
    LET q == Reverse(LStrip(Reverse(path), "/")) IN
    Tail_from(q, LastIndexOf(q, "/") + 1)

\* Path(text).stem: the name without its last suffix
Stem(path) ==
    LET name == PathName(path)
        i == LastIndexOf(name, ".")
    IN  IF 1 < i /\ i < Len(name) THEN SubSeq(name, 1, i - 1) ELSE name

(***************************************************************************)
(* IdXMLReader                                                             *)
(***************************************************************************)

\* _get_run with the merge index ignored
_get_run_first(pids, pep_id) ==
    Stem(getMetaValue(pids[1], "spectra_data")[1])

\* IdXMLReader._get_run(protein_ids, peptide_id)
_get_run(pids, pep_id) ==
    IF metaValueExists(pep_id, "id_merge_index")
    THEN Stem(getMetaValue(pids[1], "spectra_data")[getMetaValue(pep_id, "id_merge_index") + 1])
    ELSE Stem(getMetaValue(pids[1], "spectra_data")[1])

\* IdXMLReader._get_rescoring_features(peptide_hit): the hit's keys that are in
\* the fixed list
_get_rescoring_features(hit) ==
    {key \in DOMAIN hit.meta : key \in RESCORING_FEATURE_LIST}

\* _is_decoy with a missing marker read as "not a decoy"
_is_decoy_two_state(hit) ==
    IF getMetaValue(hit, "target_decoy") = <<"d", "e", "c", "o", "y">> THEN PyTrue ELSE PyFalse

\* IdXMLReader._is_decoy(peptide_hit)
_is_decoy(hit) ==
    IF metaValueExists(hit, "target_decoy")
    THEN IF getMetaValue(hit, "target_decoy") = <<"d", "e", "c", "o", "y">>
         THEN PyTrue ELSE PyFalse
    ELSE PyNone

\* IdXMLReader._parse_psm(protein_ids, peptide_id, peptide_hit), with
\* self.rescoring_features as rf
_parse_psm(rf, pids, pep_id, hit) ==
    LET pf == _parse_peptidoform(hit.sequence, hit.charge) IN
    [ peptidoform |-> pf,
      spectrum_id |-> getMetaValue(pep_id, "spectrum_reference"),
      run |-> _get_run(pids, pep_id),
      is_decoy |-> _is_decoy(hit),
      score |-> hit.score,
      rank |-> hit.rank + 1,
      provenance_data |-> [k \in {pf} |-> hit.sequence],
      rescoring_features |->
          [key \in {k \in rf : _is_float(getMetaValue(hit, k))} |->
              float(getMetaValue(hit, key))] ]

(***************************************************************************)
(* Documents the reader is given.  The reader holds the whole document; a  *)
(* hit is parsed from the reader's fields, its own record and itself       *)
(* alone, so the model keeps the first hit's contribution                  *)
(* (rescoring_features) and the record and hit under the iterator, and     *)
(* draws the rest of the document as the iteration reaches it.             *)
(***************************************************************************)

MaxRuns == 3
MaxRead == 2

\* Run paths as stored in spectra_data, by position
RunPathList ==
    << <<"a", ".", "m">>,
       <<"d", "/", "b", ".", "m">>,
       <<"c">>,
       <<"d", "/", "e", ".", "x", ".", "m">>,
       <<".", "h">> >>

ProteinIdsSet ==
    { << [meta |-> [spectra_data |-> SubSeq(RunPathList, 1, n)]] >> : n \in 1..MaxRuns }

SpectrumRefs == {"s1", "s2"}

\* Identification records of a document with run list runs: the merge index,
\* when present, is an index into the run list
PeptideIdMetas(pids) ==
    { [spectrum_reference |-> sr] : sr \in SpectrumRefs }
    \cup { [spectrum_reference |-> sr, id_merge_index |-> i] :
             sr \in SpectrumRefs, i \in 0..(Len(pids[1].meta.spectra_data) - 1) }

PeptideIdSet(pids) == { [meta |-> m] : m \in PeptideIdMetas(pids) }

Opt(key, values) == {{}} \cup {{<<key, v>>} : v \in values}

HitMetas ==
    { MakeDict(d \cup a \cup b \cup c) :
        d \in Opt("target_decoy", {<<"d", "e", "c", "o", "y">>, <<"t", "a", "r", "g", "e", "t">>}),
        a \in Opt("MS:1002049", {<<"1", "2", ".", "3">>}),
        b \in Opt("random_key", {<<"5">>}),
        c \in Opt("COMET:lnExpect", {<<"n", "o", "t", "a", "n", "u", "m", "b", "e", "r">>, <<"0", ".", "5">>}) }

HitSequences == {<<"A", "K">>, <<".", "(", "a", ")", "K", "(", "m", ")">>}
HitScores == {3}
HitRanks == {0, 1}

PeptideHitSet ==
    [ sequence : HitSequences, charge : {2}, score : HitScores, rank : HitRanks,
      meta : HitMetas ]

\* IdXMLReader.__init__ on a document whose first record and first hit are
\* peptide_id and peptide_hit; the iterator stands before the first hit
InitReader ==
    /\ TranslateIdle /\ UpdateIdle /\ CreateIdle /\ PercolatorIdle /\ SessionIdle /\ RestartIdle
    /\ protein_ids \in ProteinIdsSet
    /\ peptide_id \in PeptideIdSet(protein_ids)
    /\ peptide_hit \in PeptideHitSet
    /\ rescoring_features = _get_rescoring_features(peptide_hit)
    /\ psm = <<>>
    /\ n_read = 0
    /\ rpc = "hit"

\* IdXMLReader.__iter__: yield self._parse_psm(...) for the hit under the iterator
IterYield ==
    /\ rpc = "hit"
    /\ psm' = <<_parse_psm(rescoring_features, protein_ids, peptide_id, peptide_hit)>>
    /\ n_read' = n_read + 1
    /\ rpc' = "yielded"
    /\ UNCHANGED <<protein_ids, rescoring_features, peptide_id, peptide_hit, not_rvars>>

\* IdXMLReader.__iter__: the inner loop moves to the next hit of the record
IterNextHit ==
    /\ rpc = "yielded"
    /\ n_read < MaxRead
    /\ \E h \in PeptideHitSet : peptide_hit' = h
    /\ psm' = <<>>
    /\ rpc' = "hit"
    /\ UNCHANGED <<protein_ids, rescoring_features, peptide_id, n_read, not_rvars>>

\* IdXMLReader.__iter__: the outer loop moves to the first hit of the next record
IterNextRecord ==
    /\ rpc = "yielded"
    /\ n_read < MaxRead
    /\ \E p \in PeptideIdSet(protein_ids), h \in PeptideHitSet :
          /\ peptide_id' = p
          /\ peptide_hit' = h
    /\ psm' = <<>>
    /\ rpc' = "hit"
    /\ UNCHANGED <<protein_ids, rescoring_features, n_read, not_rvars>>

\* IdXMLReader.__iter__: both loops are exhausted
IterEnd ==
    /\ rpc = "yielded"
    /\ rpc' = "end"
    /\ UNCHANGED <<protein_ids, rescoring_features, peptide_id, peptide_hit, psm, n_read, not_rvars>>

NextReader ==
    \/ IterYield
    \/ IterNextHit
    \/ IterNextRecord
    \/ IterEnd

SpecReader == InitReader /\ [][NextReader]_vars

\* C8: the rescoring features of a PSM read from a hit are exactly the hit's
\* keys that are in the fixed list and whose values parse as numbers, mapped
\* to those numbers; the hit {"MS:1002049": "12.3", "random_key": "5",
\* "COMET:lnExpect": "notanumber"} yields exactly {"MS:1002049": 12.3}.
C8_RescoringFeatureFilter ==
    psm # <<>> =>
        /\ psm[1].rescoring_features =
              [key \in {k \in DOMAIN peptide_hit.meta :
                           k \in RESCORING_FEATURE_LIST /\ FloatParses(peptide_hit.meta[k])} |->
                  float(peptide_hit.meta[key])]
        /\ (/\ DOMAIN peptide_hit.meta = {"MS:1002049", "random_key", "COMET:lnExpect"}
            /\ peptide_hit.meta["COMET:lnExpect"] = <<"n", "o", "t", "a", "n", "u", "m", "b", "e", "r">>)
           => psm[1].rescoring_features = [k \in {"MS:1002049"} |-> <<"float", "1", "2", ".", "3">>]

\* C9: the decoy flag of a PSM read from a hit is unknown when the hit has no
\* decoy marker, true when the marker is "decoy", false for any other marker.
C9_DecoyTriState ==
    psm # <<>> =>
        /\ "target_decoy" \notin DOMAIN peptide_hit.meta => psm[1].is_decoy = PyNone
        /\ ("target_decoy" \in DOMAIN peptide_hit.meta
              /\ peptide_hit.meta["target_decoy"] = <<"d", "e", "c", "o", "y">>)
           => psm[1].is_decoy = PyTrue
        /\ ("target_decoy" \in DOMAIN peptide_hit.meta
              /\ peptide_hit.meta["target_decoy"] # <<"d", "e", "c", "o", "y">>)
           => psm[1].is_decoy = PyFalse

\* a hit without decoy marker has been read as "unknown"
C9_Witness ==
    /\ psm # <<>>
    /\ "target_decoy" \notin DOMAIN peptide_hit.meta
    /\ psm[1].is_decoy = PyNone
    /\ n_read = 2

\* The stems of RunPathList, written out
RunStemList ==
    << <<"a">>, <<"b">>, <<"c">>, <<"e", ".", "x">>, <<".", "h">> >>

\* C10: a record with a merge index resolves to the stem of the run path at
\* that index of the document's run list, a record without one to the stem of
\* the first run path.
C10_RunResolution ==
    psm # <<>> =>
        /\ "id_merge_index" \in DOMAIN peptide_id.meta
           => psm[1].run = RunStemList[peptide_id.meta.id_merge_index + 1]
        /\ "id_merge_index" \notin DOMAIN peptide_id.meta
           => psm[1].run = RunStemList[1]

\* a record of a three-run document with merge index 2 has resolved to the third stem
C10_Witness ==
    /\ psm # <<>>
    /\ Len(protein_ids[1].meta.spectra_data) = 3
    /\ "id_merge_index" \in DOMAIN peptide_id.meta
    /\ peptide_id.meta.id_merge_index = 2
    /\ psm[1].run = <<"c">>

(***************************************************************************)
(* Python dicts that are iterated keep their insertion order: a dict is a  *)
(* sequence of [key, value] entries with distinct keys.                    *)
(***************************************************************************)

DictHas(d, k) == \E i \in 1..Len(d) : d[i].key = k
DictGet(d, k) == d[CHOOSE i \in 1..Len(d) : d[i].key = k].value
DictKeys(d) == [i \in 1..Len(d) |-> d[i].key]

\* The distinct elements of a sequence, in first-seen order
RECURSIVE FirstSeenFrom(_, _, _)
FirstSeenFrom(q, i, acc) ==
    IF i > Len(q) THEN acc
    ELSE FirstSeenFrom(q, i + 1,
                       IF \E k \in 1..Len(acc) : acc[k] = q[i] THEN acc ELSE Append(acc, q[i]))

FirstSeen(q) == FirstSeenFrom(q, 1, <<>>)

(***************************************************************************)
(* PSMList.get_psm_dict() (psm_utils.psm_list, outside this package):      *)
(* collection -> run -> spectrum_id -> the PSMs, in the order given.       *)
(***************************************************************************)

\* psm.collection; a PSM built without one has None
PsmCollection(p) == IF "collection" \in DOMAIN p THEN p.collection ELSE None

SpectrumDict(list) ==
    LET keys == FirstSeen([i \in 1..Len(list) |-> list[i].spectrum_id]) IN
    [i \in 1..Len(keys) |->
        [key |-> keys[i],
         value |-> SelectSeq(list, LAMBDA q : q.spectrum_id = keys[i])]]

RunDict(list) ==
    LET keys == FirstSeen([i \in 1..Len(list) |-> list[i].run]) IN
    [i \in 1..Len(keys) |->
        [key |-> keys[i],
         value |-> SpectrumDict(SelectSeq(list, LAMBDA q : q.run = keys[i]))]]

get_psm_dict(list) ==
    LET keys == FirstSeen([i \in 1..Len(list) |-> PsmCollection(list[i])]) IN
    [i \in 1..Len(keys) |->
        [key |-> keys[i],
         value |-> RunDict(SelectSeq(list, LAMBDA q : PsmCollection(q) = keys[i]))]]

(***************************************************************************)
(* IdXMLWriter, update in place                                            *)
(***************************************************************************)

\* IdXMLWriter._update_peptide_hit(peptide_hit, psm)
_update_peptide_hit(hit, p) ==
    LET new == {f \in DOMAIN p.rescoring_features : f \notin RESCORING_FEATURE_LIST} IN
    [hit EXCEPT
        !.score = p.score,
        !.rank = p.rank - 1,
        !.meta = [k \in DOMAIN hit.meta \cup new |->
                     IF k \in new THEN p.rescoring_features[k] ELSE hit.meta[k]]]

\* spectrum_files of _update_existing_ids
spectrum_files ==
    LET runs == getMetaValue(protein_ids[1], "spectra_data") IN
    [i \in 1..Len(runs) |-> Stem(runs[i])]

\* The index of spectrum_files is an integer: with several runs, the record
\* has a merge index (getMetaValue gives None for a key that is not set, and
\* a list indexed with None raises TypeError)
RunIndexOk(pep_id) ==
    Len(spectrum_files) > 1 => metaValueExists(pep_id, "id_merge_index")

\* run of _update_existing_ids
UpdateRun(pep_id) ==
    IF Len(spectrum_files) > 1
    THEN spectrum_files[getMetaValue(pep_id, "id_merge_index") + 1]
    ELSE spectrum_files[1]

\* psm_dict[None][run][spectrum_reference] raises no KeyError
BucketFound(pep_id) ==
    /\ DictHas(psm_dict, None)
    /\ DictHas(DictGet(psm_dict, None), UpdateRun(pep_id))
    /\ DictHas(DictGet(DictGet(psm_dict, None), UpdateRun(pep_id)),
               getMetaValue(pep_id, "spectrum_reference"))

Bucket(pep_id) ==
    DictGet(DictGet(DictGet(psm_dict, None), UpdateRun(pep_id)),
            getMetaValue(pep_id, "spectrum_reference"))

\* psms after the try statement: the bucket, or what psms held before
PsmsAfterTry(pep_id) == IF BucketFound(pep_id) THEN Bucket(pep_id) ELSE psms

\* psms is bound when the comprehension of hit_dict reads it
PsmsAssigned(pep_id) == IF BucketFound(pep_id) THEN TRUE ELSE psms_bound

\* psm.provenance_data[str(psm.peptidoform)]
ProvenanceKey(p) == p.provenance_data[p.peptidoform]

\* key in hit_dict, and hit_dict[key]: of several PSMs with one key the dict
\* comprehension keeps the last
HitDictHas(list, key) == \E i \in 1..Len(list) : ProvenanceKey(list[i]) = key
HitDictGet(list, key) ==
    list[CHOOSE i \in 1..Len(list) :
            /\ ProvenanceKey(list[i]) = key
            /\ \A j \in (i + 1)..Len(list) : ProvenanceKey(list[j]) # key]

\* Every hit of the record is a key of hit_dict
AllHitsFound(pep_id) ==
    \A j \in 1..Len(pep_id.hits) : HitDictHas(PsmsAfterTry(pep_id), pep_id.hits[j].sequence)

\* updated_peptide_hits of one record
UpdatedHits(pep_id) ==
    [j \in 1..Len(pep_id.hits) |->
        _update_peptide_hit(pep_id.hits[j],
                            HitDictGet(PsmsAfterTry(pep_id), pep_id.hits[j].sequence))]

\* One iteration of the loop over self.peptide_ids that reaches setHits.
\* A KeyError of the bucket lookup is caught and answered with a message.
UpdateRecord ==
    /\ upc = "update"
    /\ upd_i <= Len(peptide_ids)
    /\ LET pep_id == peptide_ids[upd_i] IN
        /\ RunIndexOk(pep_id)
        /\ PsmsAssigned(pep_id)
        /\ AllHitsFound(pep_id)
        /\ messages' = IF BucketFound(pep_id) THEN messages ELSE messages + 1
        /\ psms' = PsmsAfterTry(pep_id)
        /\ psms_bound' = TRUE
        /\ peptide_ids' = [peptide_ids EXCEPT ![upd_i].hits = UpdatedHits(pep_id)]
    /\ upd_i' = upd_i + 1
    /\ UNCHANGED <<protein_ids, loaded, psm_dict, stored, upc, not_uvars>>

\* One iteration that raises: TypeError (no merge index to index the run list
\* with), UnboundLocalError (psms read before any bucket was found) or
\* KeyError (a hit's sequence is no key of hit_dict).  getHits() gives copies
\* of the hits, so a record that does not reach setHits is as it was.
UpdateRecordRaises ==
    /\ upc = "update"
    /\ upd_i <= Len(peptide_ids)
    /\ LET pep_id == peptide_ids[upd_i] IN
        IF ~RunIndexOk(pep_id)
        THEN /\ upc' = "TypeError"
             /\ UNCHANGED <<psms, psms_bound, messages>>
        ELSE IF ~PsmsAssigned(pep_id)
        THEN /\ upc' = "UnboundLocalError"
             /\ messages' = messages + 1
             /\ UNCHANGED <<psms, psms_bound>>
        ELSE /\ ~AllHitsFound(pep_id)
             /\ upc' = "KeyError"
             /\ messages' = IF BucketFound(pep_id) THEN messages ELSE messages + 1
             /\ psms' = PsmsAfterTry(pep_id)
             /\ psms_bound' = TRUE
    /\ UNCHANGED <<protein_ids, peptide_ids, loaded, psm_dict, upd_i, stored, not_uvars>>

\* The writer's filename
Filename == <<"o", "u", "t">>

\* After the loop: IdXMLFile().store(filename, protein_ids, peptide_ids)
UpdateStore ==
    /\ upc = "update"
    /\ upd_i > Len(peptide_ids)
    /\ stored' = Append(stored, [path |-> Filename, protein_ids |-> protein_ids,
                                 peptide_ids |-> peptide_ids])
    /\ upc' = "done"
    /\ UNCHANGED <<protein_ids, peptide_ids, loaded, psm_dict, upd_i, psms, psms_bound,
                   messages, not_uvars>>

NextUpdate ==
    \/ UpdateRecord
    \/ UpdateRecordRaises
    \/ UpdateStore

(***************************************************************************)
(* The documents and PSM lists an update is run on: a document of one or   *)
(* two runs, read by IdXMLReader, rescored (new score, new rank, added     *)
(* rescoring features), possibly filtered, and written back.               *)
(***************************************************************************)

MaxRecords == 2

UpdateProteinIdsSet == {p \in ProteinIdsSet : Len(p[1].meta.spectra_data) <= 2}

\* The hits of a record, by their sequences
HitSequenceLists ==
    { <<<<"A", "K">>>>,
      <<<<".", "(", "a", ")", "K", "(", "m", ")">>>>,
      <<<<"A", "K">>, <<".", "(", "a", ")", "K", "(", "m", ")">>>> }

\* Meta values of the document's hits, and the features rescoring adds
FeatureScenarios ==
    { [hit_meta |-> MakeDict({}), rescored |-> MakeDict({})],
      [hit_meta |-> MakeDict({<<"COMET:lnExpect", <<"0", ".", "5">>>>,
                              <<"MS:1002049", <<"1", "2", ".", "3">>>>,
                              <<"random_key", <<"5">>>>}),
       rescored |-> MakeDict({<<"COMET:lnExpect", float(<<"9", ".", "9">>)>>,
                              <<"MS:1002049", float(<<"9", "9">>)>>,
                              <<"random_key", float(<<"7">>)>>,
                              <<"rt_diff", float(<<"1", ".", "5">>)>>})] }

\* Spectrum references of the records: all records of one spectrum (of
\* different runs, or several records for one spectrum), or one each
SpectrumNames == <<"s1", "s2", "s3", "s4">>
SpectrumModes == {"same", "distinct"}
SpectrumOf(mode, i) == IF mode = "same" THEN SpectrumNames[1] ELSE SpectrumNames[i]

UpdateRecordFor(pids, mode, scen, i, merge, seqs) ==
    [ meta |-> IF merge < 0
               THEN [spectrum_reference |-> SpectrumOf(mode, i)]
               ELSE [spectrum_reference |-> SpectrumOf(mode, i), id_merge_index |-> merge],
      hits |-> [j \in 1..Len(seqs) |->
                  [sequence |-> seqs[j], charge |-> 2, score |-> 3, rank |-> j - 1,
                   meta |-> scen.hit_meta]] ]

\* A document carries a merge index on every record (a merged document) or
\* on none
UpdateDocs(pids, mode, scen) ==
    UNION { { [i \in 1..n |-> UpdateRecordFor(pids, mode, scen, i, c[i].merge, c[i].seqs)] :
                c \in { d \in [1..n -> [merge : (0 - 1)..(Len(pids[1].meta.spectra_data) - 1),
                                         seqs : HitSequenceLists]] :
                            \/ \A i \in 1..n : d[i].merge < 0
                            \/ \A i \in 1..n : d[i].merge >= 0 } } :
            n \in 1..MaxRecords }

\* The PSM of hit j of record i after rescoring: a score of its own, the
\* ranks of a record reversed, the added features
Rescored(p, i, j, nhits, scen) ==
    [p EXCEPT !.score = 10 * i + j,
              !.rank = nhits - j + 1,
              !.rescoring_features =
                  [k \in DOMAIN scen.rescored \cup DOMAIN p.rescoring_features |->
                      IF k \in DOMAIN scen.rescored THEN scen.rescored[k]
                      ELSE p.rescoring_features[k]]]

\* What is filtered from the list: nothing <<0, 0>>, the PSMs of record r
\* <<r, 0>>, or the first PSM of record r <<r, 1>>
Filters(n) == {<<0, 0>>} \cup {<<r, k>> : r \in 1..n, k \in {0, 1}}

RECURSIVE ReadAndRescore(_, _, _, _, _)
ReadAndRescore(pids, peps, scen, drop, i) ==
    IF i > Len(peps) THEN <<>>
    ELSE LET rec == peps[i]
             rf == _get_rescoring_features(peps[1].hits[1])
             kept == SelectSeq([j \in 1..Len(rec.hits) |-> j],
                               LAMBDA j : ~(drop[1] = i /\ drop[2] \in {0, j}))
         IN  [x \in 1..Len(kept) |->
                Rescored(_parse_psm(rf, pids, rec, rec.hits[kept[x]]),
                         i, kept[x], Len(rec.hits), scen)]
             \o ReadAndRescore(pids, peps, scen, drop, i + 1)

\* IdXMLWriter(filename, protein_ids, peptide_ids).write_file(psm_list) is
\* entered with both parts of the document given
InitUpdate ==
    /\ TranslateIdle /\ ReaderIdle /\ CreateIdle /\ PercolatorIdle /\ SessionIdle /\ RestartIdle
    /\ protein_ids \in UpdateProteinIdsSet
    /\ \E mode \in SpectrumModes, scen \in FeatureScenarios :
          /\ peptide_ids \in UpdateDocs(protein_ids, mode, scen)
          /\ \E drop \in Filters(Len(peptide_ids)) :
                psm_dict = get_psm_dict(ReadAndRescore(protein_ids, peptide_ids, scen, drop, 1))
    /\ loaded = [protein_ids |-> protein_ids, peptide_ids |-> peptide_ids]
    /\ upd_i = 1
    /\ psms = <<>>
    /\ psms_bound = FALSE
    /\ messages = 0
    /\ stored = <<>>
    /\ upc = "update"

SpecUpdate == InitUpdate /\ [][NextUpdate]_vars

\* The PSMs of the list given to write_file
UpdatePsms ==
    IF ~DictHas(psm_dict, None) THEN {}
    ELSE LET runs == DictGet(psm_dict, None) IN
         UNION { UNION { { runs[r].value[x].value[k] :
                             k \in 1..Len(runs[r].value[x].value) } :
                         x \in 1..Len(runs[r].value) } :
                 r \in 1..Len(runs) }

\* The allow-list of rescoring-feature names: the names the source lists,
\* each a name of its own
AllowList ==
    RESCORING_FEATURE_LIST \cup
        {"isotope_error", "MS:1002049", "SAGE:ln(-poisson)", "SAGE:ln(delta_best)"}

\* Hit new is hit old updated from PSM p and otherwise left alone
UpdatedFrom(old, new, p) ==
    /\ ProvenanceKey(p) = old.sequence
    /\ new.score = p.score
    /\ new.rank = p.rank - 1
    /\ new.sequence = old.sequence
    /\ new.charge = old.charge
    /\ DOMAIN new.meta = DOMAIN old.meta \cup (DOMAIN p.rescoring_features \ AllowList)
    /\ \A k \in DOMAIN new.meta :
          new.meta[k] = IF k \in DOMAIN p.rescoring_features /\ k \notin AllowList
                        THEN p.rescoring_features[k] ELSE old.meta[k]

\* C2: an update-in-place write sets each hit's score, rank and the values
\* of the PSM's rescoring features that are not allow-listed from the matched
\* PSM and changes nothing else: records, hits, sequences, charges,
\* allow-listed values and protein records are as loaded, and the document
\* is stored once, after the last record
C2_UpdateFrame ==
    /\ upc # "done" => stored = <<>>
    /\ upc = "done" =>
          /\ upd_i > Len(peptide_ids)
          /\ Len(stored) = 1
          /\ stored[1].path = Filename
          /\ stored[1].protein_ids = loaded.protein_ids
          /\ stored[1].peptide_ids = peptide_ids
          /\ Len(peptide_ids) = Len(loaded.peptide_ids)
          /\ \A i \in 1..Len(peptide_ids) :
                LET old == loaded.peptide_ids[i]
                    new == peptide_ids[i]
                IN  /\ new.meta = old.meta
                    /\ Len(new.hits) = Len(old.hits)
                    /\ \A j \in 1..Len(new.hits) :
                          \E p \in UpdatePsms : UpdatedFrom(old.hits[j], new.hits[j], p)

\* The bucket of a record's run and spectrum exists and holds a PSM for each
\* of the record's hits
MergeKeysFound(pep_id) ==
    /\ BucketFound(pep_id)
    /\ \A j \in 1..Len(pep_id.hits) : HitDictHas(Bucket(pep_id), pep_id.hits[j].sequence)

\* C3: an update-in-place write aborts at a record without PSM bucket or
\* with a hit without PSM in the bucket: no later record is processed, the
\* document is not stored, and no hit is updated from a PSM of another run
\* or spectrum than its record's
C3_MergeKeyNotFoundAborts ==
    /\ \A i \in 1..Len(peptide_ids) :
          i < upd_i => MergeKeysFound(loaded.peptide_ids[i])
    /\ stored # <<>> =>
          \A i \in 1..Len(peptide_ids) : MergeKeysFound(loaded.peptide_ids[i])
    /\ \A i \in 1..Len(peptide_ids) : \A j \in 1..Len(peptide_ids[i].hits) :
          peptide_ids[i].hits[j] # loaded.peptide_ids[i].hits[j] =>
              /\ BucketFound(loaded.peptide_ids[i])
              /\ \E k \in 1..Len(Bucket(loaded.peptide_ids[i])) :
                    peptide_ids[i].hits[j].score = Bucket(loaded.peptide_ids[i])[k].score

\* The PSMs of the list given to write_file that were read from record
\* pep_id: their run is the one _get_run gave them, their spectrum the
\* record's reference
ReadFrom(pep_id) ==
    {p \in UpdatePsms :
        /\ p.run = _get_run(protein_ids, pep_id)
        /\ p.spectrum_id = getMetaValue(pep_id, "spectrum_reference")}

\* C18: an update-in-place write looks every record up under the run name
\* that IdXMLReader._get_run gave to the PSMs read from it, for one or
\* several runs and with or without a merge index on the record, so the
\* PSMs read from a record are found in the bucket of that record
C18_SameRunRule ==
    (upc = "update" /\ upd_i <= Len(peptide_ids)) =>
        LET pep_id == peptide_ids[upd_i] IN
        /\ RunIndexOk(pep_id)
        /\ UpdateRun(pep_id) = _get_run(protein_ids, pep_id)
        /\ \A p \in ReadFrom(pep_id) :
              /\ BucketFound(pep_id)
              /\ \E k \in 1..Len(Bucket(pep_id)) : Bucket(pep_id)[k] = p

(***************************************************************************)
(* IdXMLWriter, create new                                                 *)
(***************************************************************************)

\* The update-in-place variables that a create-new write leaves alone
update_locals == <<loaded, upd_i, psms, psms_bound, messages, upc>>

\* list.index(x): the 0-based position of the first x
index(list, x) ==
    (CHOOSE i \in 1..Len(list) : list[i] = x /\ \A j \in 1..(i - 1) : list[j] # x) - 1

\* filter(None, ...) keeps the parts that are truthy: neither None nor ""
Truthy(x) == x # None /\ x # <<>>

\* sep.join(parts)
RECURSIVE Join(_, _)
Join(parts, sep) ==
    IF parts = <<>> THEN <<>>
    ELSE IF Len(parts) = 1 THEN parts[1]
    ELSE parts[1] \o sep \o Join(Tail(parts), sep)

\* "/".join(filter(None, [collection, str(self.filename)]))
StorePath(collection) == Join(SelectSeq(<<collection, Filename>>, Truthy), <<"/">>)

\* IdXMLWriter._add_meta_values_from_dict on the hit's meta values; obj is the
\* PSM and field the name of its dict, which is None when the PSM has none
_add_meta_values_from_dict(meta, obj, field) ==
    IF field \notin DOMAIN obj THEN meta
    ELSE [k \in DOMAIN meta \cup DOMAIN obj[field] |->
             IF k \in DOMAIN obj[field] THEN obj[field][k] ELSE meta[k]]

\* The target_decoy meta value of a PSM
TargetDecoy(p) ==
    IF p.is_decoy = PyNone THEN "" ELSE IF p.is_decoy = PyTrue THEN "decoy" ELSE "target"

\* The PeptideHit built from one PSM
CreateHit(p) ==
    [sequence |-> _convert_proforma_to_unimod(PeptidoformSequence(p.peptidoform)),
     charge |-> PrecursorCharge(p.peptidoform),
     score |-> IF "score" \in DOMAIN p THEN p.score ELSE 0,
     rank |-> IF "rank" \in DOMAIN p THEN p.rank - 1 ELSE 0,
     meta |-> _add_meta_values_from_dict(
                  _add_meta_values_from_dict(
                      _add_meta_values_from_dict(
                          MakeDict({<<"target_decoy", TargetDecoy(p)>>}),
                          p, "metadata"),
                      p, "provenance_data"),
                  p, "rescoring_features")]

\* The PeptideIdentification built from the PSMs of one run and spectrum
CreatePeptideId(msrun_reference, run, spectrum_id, group) ==
    LET with_meta == [meta |-> [spectrum_reference |-> spectrum_id,
                                id_merge_index |-> index(msrun_reference, run)],
                      hits |-> [j \in 1..Len(group) |-> CreateHit(group[j])]]
        with_mz == IF "precursor_mz" \in DOMAIN group[1]
                   THEN with_meta @@ [mz |-> group[1].precursor_mz] ELSE with_meta
    IN  IF "retention_time" \in DOMAIN group[1]
        THEN with_mz @@ [rt |-> group[1].retention_time] ELSE with_mz

\* list(set(flat)) without the set: every reference kept
ProteinListOrders_no_set(flat) == {flat}

\* list(set(flat)): each accession once, in an order set() does not promise
ProteinListOrders(flat) ==
    LET S == {flat[i] : i \in 1..Len(flat)} IN
    {q \in [1..Cardinality(S) -> S] : \A i, j \in 1..Cardinality(S) : i # j => q[i] # q[j]}

\* Top of the loop over psm_dict.items(): a fresh document for the collection
CreateCollection ==
    /\ cpc = "collection"
    /\ col_i <= Len(psm_dict)
    /\ protein_ids' = [meta |-> [spectra_data |-> DictKeys(psm_dict[col_i].value)],
                       hits |-> <<>>]
    /\ peptide_ids' = <<>>
    /\ protein_list' = <<>>
    /\ run_i' = 1
    /\ spec_i' = 1
    /\ cpc' = "groups"
    /\ UNCHANGED <<psm_list, col_i, psm_dict, stored, update_locals, not_cvars>>

\* One iteration of the loops over runs.items() and psm_dict_run.items()
CreateRecord ==
    /\ cpc = "groups"
    /\ run_i <= Len(psm_dict[col_i].value)
    /\ LET runs == psm_dict[col_i].value
           spectra == runs[run_i].value
           group == spectra[spec_i].value
       IN  /\ protein_list' =
                 Append(protein_list, Flatten([k \in 1..Len(group) |-> group[k].protein_list]))
           /\ peptide_ids' =
                 Append(peptide_ids,
                        CreatePeptideId(getMetaValue(protein_ids, "spectra_data"),
                                        runs[run_i].key, spectra[spec_i].key, group))
           /\ IF spec_i < Len(spectra)
              THEN spec_i' = spec_i + 1 /\ run_i' = run_i
              ELSE spec_i' = 1 /\ run_i' = run_i + 1
    /\ UNCHANGED <<protein_ids, psm_list, col_i, cpc, psm_dict, stored, update_locals, not_cvars>>

\* After the loops: the protein hits, and the document of the collection stored
CreateStore ==
    /\ cpc = "groups"
    /\ run_i > Len(psm_dict[col_i].value)
    /\ \E order \in ProteinListOrders(Flatten(protein_list)) :
          /\ protein_list' = order
          /\ protein_ids' = [protein_ids EXCEPT
                                !.hits = [i \in 1..Len(order) |-> [accession |-> order[i]]]]
    /\ stored' = Append(stored, [path |-> StorePath(psm_dict[col_i].key),
                                 protein_ids |-> <<protein_ids'>>,
                                 peptide_ids |-> peptide_ids])
    /\ col_i' = col_i + 1
    /\ cpc' = "collection"
    /\ UNCHANGED <<peptide_ids, psm_list, run_i, spec_i, psm_dict, update_locals, not_cvars>>

\* The loop over the collections is exhausted
CreateReturn ==
    /\ cpc = "collection"
    /\ col_i > Len(psm_dict)
    /\ cpc' = "done"
    /\ UNCHANGED <<protein_ids, peptide_ids, psm_list, col_i, run_i, spec_i, protein_list,
                   psm_dict, stored, update_locals, not_cvars>>

NextCreate ==
    \/ CreateCollection
    \/ CreateRecord
    \/ CreateStore
    \/ CreateReturn

(***************************************************************************)
(* The PSM lists a create-new write is run on.                             *)
(***************************************************************************)

MaxPsms == 3

CreateRuns == {<<"r", "1">>, <<"r", "2">>}
CreateSpectra == {"s1", "s2"}

\* The collections of the PSMs at odd and at even positions of the list
CollectionPatterns ==
    { <<None, None>>,
      <<<<"c", "1">>, <<"c", "1">>>>,
      <<None, <<"c", "1">>>>,
      <<<<>>, None>>,
      <<<<"c", "1">>, <<"c", "2">>>> }

\* The protein list of PSM i: empty, an accession of its own, or the first
\* accession and its own
AccessionNames == <<"P1", "P2", "P3", "P4", "P5", "P6">>
ProteinPatterns == {"none", "own", "overlap"}
ProteinsOf(pattern, i) ==
    CASE pattern = "none" -> <<>>
      [] pattern = "own" -> <<AccessionNames[i]>>
      [] pattern = "overlap" -> <<AccessionNames[1], AccessionNames[i]>>

PeptidoformTexts == << <<"A", "K", "/", "2">>, <<"K", "[", "m", "]", "/", "2">> >>
DecoyValues == <<PyNone, PyTrue, PyFalse>>

CreatePsm(i, key, cpat, ppat) ==
    [peptidoform |-> PeptidoformTexts[((i - 1) % 2) + 1],
     spectrum_id |-> key[2],
     run |-> key[1],
     collection |-> cpat[((i - 1) % 2) + 1],
     is_decoy |-> DecoyValues[((i - 1) % 3) + 1],
     score |-> 10 * i,
     rank |-> 1,
     precursor_mz |-> 500 + i,
     protein_list |-> ProteinsOf(ppat, i),
     rescoring_features |-> MakeDict({<<"rt_diff", float(<<"1", ".", "5">>)>>})]

\* IdXMLWriter(filename).write_file(psm_list) with no document given has
\* reached _create_new_ids
InitCreate ==
    /\ TranslateIdle /\ ReaderIdle /\ PercolatorIdle /\ SessionIdle /\ RestartIdle
    /\ protein_ids = None
    /\ peptide_ids = None
    /\ \E n \in 0..MaxPsms, cpat \in CollectionPatterns, ppat \in ProteinPatterns :
          \E keys \in [1..n -> CreateRuns \X CreateSpectra] :
             psm_list = [i \in 1..n |-> CreatePsm(i, keys[i], cpat, ppat)]
    /\ psm_dict = get_psm_dict(psm_list)
    /\ loaded = <<>>
    /\ upd_i = 0
    /\ psms = <<>>
    /\ psms_bound = FALSE
    /\ messages = 0
    /\ upc = "idle"
    /\ stored = <<>>
    /\ col_i = 1
    /\ run_i = 1
    /\ spec_i = 1
    /\ protein_list = <<>>
    /\ cpc = "collection"

SpecCreate == InitCreate /\ [][NextCreate]_vars

\* The PSMs of collection c, in the order of the list
PsmsOfCollection(c) == SelectSeq(psm_list, LAMBDA q : q.collection = c)

\* Position in list of the first PSM of run r
FirstOfRun(list, r) ==
    CHOOSE i \in 1..Len(list) : list[i].run = r /\ \A j \in 1..(i - 1) : list[j].run # r

\* doc is the document of the PSMs mine of one collection
DocumentOf(doc, mine) ==
    LET runs == doc.protein_ids[1].meta.spectra_data
        hits == doc.protein_ids[1].hits
        groups == {<<mine[i].run, mine[i].spectrum_id>> : i \in 1..Len(mine)}
        accessions == UNION {{mine[i].protein_list[k] : k \in 1..Len(mine[i].protein_list)} :
                             i \in 1..Len(mine)}
    IN  /\ Len(doc.protein_ids) = 1
        /\ {runs[a] : a \in 1..Len(runs)} = {mine[i].run : i \in 1..Len(mine)}
        /\ \A a, b \in 1..Len(runs) :
              a < b => FirstOfRun(mine, runs[a]) < FirstOfRun(mine, runs[b])
        /\ Len(doc.peptide_ids) = Cardinality(groups)
        /\ \A g \in groups :
              \E r \in 1..Len(doc.peptide_ids) :
                 LET rec == doc.peptide_ids[r]
                     members == SelectSeq(mine, LAMBDA q : q.run = g[1] /\ q.spectrum_id = g[2])
                 IN  /\ rec.meta.spectrum_reference = g[2]
                     /\ rec.meta.id_merge_index \in 0..(Len(runs) - 1)
                     /\ runs[rec.meta.id_merge_index + 1] = g[1]
                     /\ Len(rec.hits) = Len(members)
                     /\ \A j \in 1..Len(members) : rec.hits[j].score = members[j].score
        /\ \A i \in 1..Len(hits) : hits[i].accession \in accessions
        /\ \A a \in accessions :
              Cardinality({i \in 1..Len(hits) : hits[i].accession = a}) = 1

C5_CreatePaths ==
    cpc = "done" =>
        /\ Len(stored) = 1 => stored[1].path = Filename
        /\ \A k \in 1..Len(stored) : stored[k].path # Filename => Len(stored) > 1
        /\ \A k, l \in 1..Len(stored) : k # l => stored[k].path # stored[l].path

(***************************************************************************)
(* Percolator tab files (percolator.py).  A file is the sequence of the    *)
(* strings written to it, one line each; text is a sequence of characters. *)
(***************************************************************************)

\* str.strip(): leading and trailing whitespace removed
Whitespace == {" ", "\t", "\n", "\r"}

strip(s) ==
    IF \A i \in 1..Len(s) : s[i] \in Whitespace THEN <<>>
    ELSE SubSeq(s,
                CHOOSE i \in 1..Len(s) :
                    s[i] \notin Whitespace /\ \A j \in 1..(i - 1) : s[j] \in Whitespace,
                CHOOSE i \in 1..Len(s) :
                    s[i] \notin Whitespace /\ \A j \in (i + 1)..Len(s) : s[j] \in Whitespace)

\* str.lower()
UpperCase == <<"A", "B", "C", "D", "E", "F", "G", "H", "I", "J", "K", "L", "M", "N", "O", "P", "Q", "R", "S", "T", "U", "V", "W", "X", "Y", "Z">>
LowerCase == <<"a", "b", "c", "d", "e", "f", "g", "h", "i", "j", "k", "l", "m", "n", "o", "p", "q", "r", "s", "t", "u", "v", "w", "x", "y", "z">>
LowerChar(c) ==
    IF \E i \in 1..Len(UpperCase) : UpperCase[i] = c
    THEN LowerCase[CHOOSE i \in 1..Len(UpperCase) : UpperCase[i] = c]
    ELSE c
lower(s) == SubSeq([i \in 1..Len(s) |-> LowerChar(s[i])], 1, Len(s))

\* Position of the first sep in s at or after i, or 0
NextSeparator(s, sep, i) ==
    IF \E j \in i..Len(s) : StartsWithAt(s, j, sep)
    THEN CHOOSE j \in i..Len(s) :
            StartsWithAt(s, j, sep) /\ \A k \in i..(j - 1) : ~StartsWithAt(s, k, sep)
    ELSE 0

\* str.split(sep), from position i on; j is the position of the next sep
RECURSIVE SplitAt(_, _, _, _)
SplitAt(s, sep, i, j) ==
    IF j = 0 THEN <<SubSeq(s, i, Len(s))>>
    ELSE <<SubSeq(s, i, j - 1)>>
         \o SplitAt(s, sep, j + Len(sep), NextSeparator(s, sep, j + Len(sep)))

split(s, sep) == SplitAt(s, sep, 1, NextSeparator(s, sep, 1))

\* str.replace(old, new)
replace(s, old, new) == Join(split(s, old), new)

\* A text file opened in text mode gives "\r\n" as "\n"
UniversalNewline(line) == replace(line, <<"\r", "\n">>, <<"\n">>)

\* The digits in order
DigitList == <<"0", "1", "2", "3", "4", "5", "6", "7", "8", "9">>

\* int(text) of a text of digits
RECURSIVE int(_)
int(t) ==
    IF t = <<>> THEN 0
    ELSE 10 * int(SubSeq(t, 1, Len(t) - 1))
         + (CHOOSE d \in 0..9 : DigitList[d + 1] = t[Len(t)])

\* dict[key] = value on an ordered dict
DictSet(d, k, v) ==
    IF DictHas(d, k)
    THEN [i \in 1..Len(d) |-> IF d[i].key = k THEN [key |-> k, value |-> v] ELSE d[i]]
    ELSE Append(d, [key |-> k, value |-> v])

\* dict.update(other)
RECURSIVE DictUpdate(_, _)
DictUpdate(d, other) ==
    IF other = <<>> THEN d
    ELSE DictUpdate(DictSet(d, Head(other).key, Head(other).value), Tail(other))

\* x in list
In(x, list) == \E i \in 1..Len(list) : list[i] = x

\* self._protein_separator
ProteinSeparator == <<"|", "|", "|">>

\* Column names
PSMId == <<"P", "S", "M", "I", "d">>
Label == <<"L", "a", "b", "e", "l">>
ScanNr == <<"S", "c", "a", "n", "N", "r">>
Peptide == <<"P", "e", "p", "t", "i", "d", "e">>
Proteins == <<"P", "r", "o", "t", "e", "i", "n", "s">>
ScoreColumn == <<"s", "c", "o", "r", "e">>
QValueColumn == <<"q", "-", "v", "a", "l", "u", "e">>
PepColumn == <<"p", "o", "s", "t", "e", "r", "i", "o", "r", "_", "e", "r", "r", "o", "r", "_", "p", "r", "o", "b">>
PoutPeptide == <<"p", "e", "p", "t", "i", "d", "e">>
ProteinIds == <<"p", "r", "o", "t", "e", "i", "n", "I", "d", "s">>
ChargeColumn == <<"c", "h", "a", "r", "g", "e">>
ChargeColumnUpper == <<"C", "h", "a", "r", "g", "e">>
DefaultDirection == <<"D", "e", "f", "a", "u", "l", "t", "D", "i", "r", "e", "c", "t", "i", "o", "n">>

\* self.non_feature_columns of the reader
non_feature_columns ==
    << <<"s", "p", "e", "c", "i", "d">>, <<"p", "s", "m", "i", "d">>, <<"l", "a", "b", "e", "l">>, <<"s", "c", "a", "n", "n", "r">>, <<"p", "e", "p", "t", "i", "d", "e">>, <<"p", "r", "o", "t", "e", "i", "n", "s">>, QValueColumn,
       PepColumn, <<"p", "r", "o", "t", "e", "i", "n", "i", "d", "s">> >>

(***************************************************************************)
(* PercolatorTabWriter                                                     *)
(***************************************************************************)

\* self._columns of PercolatorTabWriter.__init__
Columns(st, names) ==
    IF st = "pin" THEN <<PSMId, Label, ScanNr>> \o names \o <<Peptide, Proteins>>
    ELSE <<PSMId, Label, ScoreColumn, QValueColumn, PepColumn, PoutPeptide, ProteinIds>>

\* re.sub(r"/\d+$", "", proforma)
ChargeSuffixStripped(s) ==
    LET i == SlashFrom(s, Len(s)) IN
    IF i > 0 /\ i < Len(s) /\ AllDigits(SubSeq(s, i + 1, Len(s)))
    THEN SubSeq(s, 1, i - 1) ELSE s

\* None if psm.is_decoy is None else -1 if psm.is_decoy else 1, as csv writes it
LabelOf(p) ==
    IF p.is_decoy = PyNone THEN None ELSE IF p.is_decoy = PyTrue THEN <<"-", "1">> ELSE <<"1">>

\* self._protein_separator.join(psm.protein_list) if psm.protein_list else None
PackedProteins(p) ==
    IF p.protein_list # <<>> THEN Join(p.protein_list, ProteinSeparator) ELSE None

\* PercolatorTabWriter._psm_to_entry
_psm_to_entry(st, p) ==
    IF st = "pin"
    THEN DictUpdate(<< [key |-> PSMId, value |-> p.spectrum_id],
                       [key |-> Label, value |-> LabelOf(p)],
                       [key |-> ScanNr, value |-> None],
                       [key |-> Peptide,
                        value |-> <<".">> \o ChargeSuffixStripped(p.peptidoform) \o <<".">>],
                       [key |-> Proteins, value |-> PackedProteins(p)] >>,
                    p.rescoring_features)
    ELSE << [key |-> PSMId, value |-> p.spectrum_id],
            [key |-> Label, value |-> LabelOf(p)],
            [key |-> ScoreColumn, value |-> p.score],
            [key |-> QValueColumn, value |-> p.qvalue],
            [key |-> PepColumn, value |-> p.pep],
            [key |-> PoutPeptide, value |-> p.peptidoform],
            [key |-> ProteinIds, value |-> PackedProteins(p)] >>

\* What csv writes for one value: nothing for None, the repr of a float, the
\* text itself (no value here holds a tab, a quote or a line break, so no
\* field is quoted)
CsvField(v) ==
    IF v = None THEN <<>> ELSE IF v # <<>> /\ Head(v) = "float" THEN Tail(v) ELSE v

\* csv.writer.writerow with delimiter "\t" and the default line terminator
CsvRow(fields) == Join([i \in 1..Len(fields) |-> CsvField(fields[i])], <<"\t">>) \o <<"\r", "\n">>

\* csv.DictWriter finds keys of the entry that are no field names
ExtraFields(names, e) == \E i \in 1..Len(e) : ~In(e[i].key, names)

\* csv.DictWriter: the entry's values in the order of the field names
DictRow(names, e) ==
    [i \in 1..Len(names) |-> IF DictHas(e, names[i]) THEN DictGet(e, names[i]) ELSE <<>>]

\* _PercolatorTabIO.write
IOWrite(text) == replace(text, ProteinSeparator, <<"\t">>)

(***************************************************************************)
(* _PercolatorTabIO.__iter__, csv.DictReader and PercolatorTabReader       *)
(***************************************************************************)

\* PercolatorTabReader._read_header
_read_header(f) == split(lower(strip(UniversalNewline(f[1]))), <<"\t">>)

\* re.fullmatch("(charge|Charge)([0-9]+)", col)
OneHotMatch(col) ==
    /\ Len(col) > Len(ChargeColumn)
    /\ SubSeq(col, 1, Len(ChargeColumn)) \in {ChargeColumn, ChargeColumnUpper}
    /\ AllDigits(SubSeq(col, Len(ChargeColumn) + 1, Len(col)))

\* int(match[2])
OneHotState(col) == int(SubSeq(col, Len(ChargeColumn) + 1, Len(col)))

\* The loop over the field names that fills charge_onehot_columns
RECURSIVE OneHotColumnsFrom(_, _, _)
OneHotColumnsFrom(names, i, acc) ==
    IF i > Len(names) THEN acc
    ELSE OneHotColumnsFrom(names, i + 1,
                           IF OneHotMatch(names[i])
                           THEN DictSet(acc, OneHotState(names[i]), names[i]) ELSE acc)

\* PercolatorTabReader._infer_charge_columns
_infer_charge_columns(names) ==
    [charge_column |-> IF In(ChargeColumnUpper, names) THEN ChargeColumnUpper
                       ELSE IF In(ChargeColumn, names) THEN ChargeColumn ELSE None,
     charge_onehot_columns |-> OneHotColumnsFrom(names, 1, <<>>)]

\* One line as _PercolatorTabIO.__iter__ yields it; i counts from 0.  The
\* source tests i == 1 & line.startswith("DefaultDirection"), where & binds
\* tighter than ==
IOLine(i, line, ncols) ==
    IF i = 0 THEN lower(line)
    ELSE IF i = (IF StartsWithAt(line, 1, DefaultDirection) THEN 1 ELSE 0) THEN line
    ELSE LET r == split(strip(line), <<"\t">>)
             k == IF ncols - 1 < Len(r) THEN ncols - 1 ELSE Len(r)
             row_columns == SubSeq(r, 1, k)
             row_proteins == SubSeq(r, k + 1, Len(r))
         IN  Join(Append(row_columns, Join(row_proteins, ProteinSeparator)), <<"\t">>)
             \o <<"\n">>

\* csv.reader on one line without quotes: the line break dropped, the rest
\* split at the tabs
CsvParse(line) ==
    LET n == Len(line)
        body == IF n >= 2 /\ SubSeq(line, n - 1, n) = <<"\r", "\n">> THEN SubSeq(line, 1, n - 2)
                ELSE IF n >= 1 /\ line[n] \in {"\r", "\n"} THEN SubSeq(line, 1, n - 1)
                ELSE line
    IN  split(body, <<"\t">>)

\* csv.DictReader: dict(zip(fieldnames, row)), a missing field None
RECURSIVE ZipEntryFrom(_, _, _, _)
ZipEntryFrom(names, row, i, acc) ==
    IF i > Len(names) THEN acc
    ELSE ZipEntryFrom(names, row, i + 1,
                      DictSet(acc, names[i], IF i <= Len(row) THEN row[i] ELSE None))

ZipEntry(names, row) == ZipEntryFrom(names, row, 1, <<>>)

\* The first charge state, in the order of the dict, whose column holds "1"
RECURSIVE OneHotCharge(_, _, _)
OneHotCharge(columns, e, i) ==
    IF i > Len(columns) THEN <<>>
    ELSE IF DictGet(e, columns[i].value) = <<"1">> THEN <<columns[i].key>>
    ELSE OneHotCharge(columns, e, i + 1)

\* _parse_charge that asks the one-hot columns first
_parse_charge_onehot_first(cc, columns, e) ==
    IF columns # <<>> THEN OneHotCharge(columns, e, 1)
    ELSE IF cc # None THEN <<int(DictGet(e, ChargeColumn))>>
    ELSE <<>>

\* PercolatorTabReader._parse_charge: <<n>> for the charge n, <<>> for None
_parse_charge(cc, columns, e) ==
    IF cc # None THEN <<int(DictGet(e, ChargeColumn))>>
    ELSE IF columns # <<>> THEN OneHotCharge(columns, e, 1)
    ELSE <<>>

\* str(n) of a natural number
RECURSIVE IntText(_)
IntText(n) ==
    LET d == <<DigitList[(n % 10) + 1]>> IN IF n < 10 THEN d ELSE IntText(n \div 10) \o d

\* re.match("^[A-Z-]\.(.+)\.[A-Z-]$", percolator_peptide)
FlankChars == {UpperCase[i] : i \in 1..Len(UpperCase)} \cup {"-"}
FlankMatch(s) ==
    /\ Len(s) >= 5
    /\ s[1] \in FlankChars /\ s[2] = "."
    /\ s[Len(s) - 1] = "." /\ s[Len(s)] \in FlankChars

FlankStripped(s) == IF FlankMatch(s) THEN SubSeq(s, 3, Len(s) - 2) ELSE s

\* PercolatorTabReader._parse_peptidoform(percolator_peptide, charge)
Percolator_parse_peptidoform(percolator_peptide, c) ==
    IF c # <<>> /\ c[1] # 0
    THEN FlankStripped(percolator_peptide) \o <<"/">> \o IntText(c[1])
    ELSE FlankStripped(percolator_peptide)

\* The rescoring_features of _parse_entry
RECURSIVE EntryFeatures(_)
EntryFeatures(e) ==
    IF e = <<>> THEN <<>>
    ELSE (IF In(Head(e).key, non_feature_columns) THEN <<>> ELSE <<Head(e)>>)
         \o EntryFeatures(Tail(e))

\* PercolatorTabReader._parse_entry
_parse_entry(cc, columns, sc, idc, e) ==
    LET label_value == IF DictHas(e, <<"l", "a", "b", "e", "l">>) THEN DictGet(e, <<"l", "a", "b", "e", "l">>) ELSE None
        c == _parse_charge(cc, columns, e)
    IN  [peptidoform |-> Percolator_parse_peptidoform(DictGet(e, PoutPeptide), c),
         spectrum_id |-> DictGet(e, idc),
         is_decoy |-> IF label_value = <<"-", "1">> THEN PyTrue
                      ELSE IF label_value = <<"1">> THEN PyFalse ELSE PyNone,
         score |-> IF sc # None THEN float(DictGet(e, lower(sc))) ELSE None,
         qvalue |-> IF DictHas(e, QValueColumn) THEN DictGet(e, QValueColumn) ELSE None,
         pep |-> IF DictHas(e, PepColumn) THEN DictGet(e, PepColumn) ELSE None,
         protein_list |-> IF DictHas(e, <<"p", "r", "o", "t", "e", "i", "n", "s">>)
                          THEN split(DictGet(e, <<"p", "r", "o", "t", "e", "i", "n", "s">>), ProteinSeparator)
                          ELSE IF DictHas(e, <<"p", "r", "o", "t", "e", "i", "n", "i", "d", "s">>)
                          THEN split(DictGet(e, <<"p", "r", "o", "t", "e", "i", "n", "i", "d", "s">>), ProteinSeparator)
                          ELSE None,
         rescoring_features |-> EntryFeatures(e)]

(***************************************************************************)
(* A file written by PercolatorTabWriter.write_file and read back by       *)
(* PercolatorTabReader.                                                    *)
(***************************************************************************)

\* PercolatorTabWriter.write_file opens the file and writes the header
WriteHeader ==
    /\ ppc = "write_file"
    /\ file' = <<IOWrite(CsvRow(Columns(style, feature_names)))>>
    /\ w_i' = 1
    /\ ppc' = "rows"
    /\ UNCHANGED <<style, feature_names, perc_psms, reader_vars, not_pvars>>

\* One iteration of the loop over psm_list: the row is written, or DictWriter
\* raises ValueError for an entry with keys that are no columns and the with
\* statement closes the file
WriteRow ==
    /\ ppc = "rows"
    /\ w_i <= Len(perc_psms)
    /\ LET e == _psm_to_entry(style, perc_psms[w_i])
           names == Columns(style, feature_names)
       IN  IF ExtraFields(names, e)
           THEN /\ ppc' = "ValueError"
                /\ UNCHANGED <<file, w_i>>
           ELSE /\ file' = Append(file, IOWrite(CsvRow(DictRow(names, e))))
                /\ w_i' = w_i + 1
                /\ ppc' = ppc
    /\ UNCHANGED <<style, feature_names, perc_psms, reader_vars, not_pvars>>

\* The loop is exhausted and the with statement closes the file
WriteClose ==
    /\ ppc = "rows"
    /\ w_i > Len(perc_psms)
    /\ ppc' = "written"
    /\ UNCHANGED <<style, feature_names, perc_psms, file, w_i, reader_vars, not_pvars>>

\* PercolatorTabReader.__init__ on the written file, no column named
ReaderInit ==
    /\ ppc = "written"
    /\ LET names == _read_header(file) IN
          /\ fieldnames' = names
          /\ id_column' = names[1]
          /\ charge_column' = _infer_charge_columns(names).charge_column
          /\ charge_onehot_columns' = _infer_charge_columns(names).charge_onehot_columns
          /\ score_column' = IF In(ScoreColumn, names) THEN ScoreColumn ELSE None
    /\ ppc' = "reader"
    /\ UNCHANGED <<style, feature_names, perc_psms, file, w_i, number_of_columns,
                   dict_fieldnames, line_i, entry, entry_charge, yielded, not_pvars>>

\* PercolatorTabReader.__iter__ opens the file and csv.DictReader takes the
\* field names from the first line _PercolatorTabIO yields
IterHeader ==
    /\ ppc = "reader"
    /\ number_of_columns' = Len(split(UniversalNewline(file[1]), <<"\t">>))
    /\ dict_fieldnames' = CsvParse(IOLine(0, UniversalNewline(file[1]), 0))
    /\ line_i' = 2
    /\ ppc' = "iter"
    /\ UNCHANGED <<style, feature_names, perc_psms, file, w_i, fieldnames, id_column,
                   charge_column, charge_onehot_columns, score_column, entry, entry_charge,
                   yielded, not_pvars>>

\* The next line: its entry is parsed and the PSM yielded, an entry with the
\* id DefaultDirection is passed over, or float() of an empty score raises
IterRow ==
    /\ ppc = "iter"
    /\ line_i <= Len(file)
    /\ LET line == IOLine(line_i - 1, UniversalNewline(file[line_i]), number_of_columns)
           e == ZipEntry(dict_fieldnames, CsvParse(line))
       IN  /\ entry' = e
           /\ IF DictGet(e, id_column) = DefaultDirection
              THEN /\ yielded' = <<>>
                   /\ entry_charge' = <<>>
                   /\ ppc' = ppc
              ELSE IF score_column # None /\ ~FloatParses(DictGet(e, lower(score_column)))
              THEN /\ yielded' = <<>>
                   /\ entry_charge' = _parse_charge(charge_column, charge_onehot_columns, e)
                   /\ ppc' = "ValueError"
              ELSE /\ yielded' = <<_parse_entry(charge_column, charge_onehot_columns,
                                                score_column, id_column, e)>>
                   /\ entry_charge' = _parse_charge(charge_column, charge_onehot_columns, e)
                   /\ ppc' = ppc
    /\ line_i' = line_i + 1
    /\ UNCHANGED <<style, feature_names, perc_psms, file, w_i, fieldnames, id_column,
                   charge_column, charge_onehot_columns, score_column, number_of_columns,
                   dict_fieldnames, not_pvars>>

\* The file is exhausted
IterStop ==
    /\ ppc = "iter"
    /\ line_i > Len(file)
    /\ ppc' = "done"
    /\ UNCHANGED <<style, feature_names, perc_psms, file, w_i, reader_vars, not_pvars>>

NextPercolator ==
    \/ WriteHeader
    \/ WriteRow
    \/ WriteClose
    \/ ReaderInit
    \/ IterHeader
    \/ IterRow
    \/ IterStop

(***************************************************************************)
(* The PSM lists and writers of the round trip.                            *)
(***************************************************************************)

MaxRows == 2

\* Feature names: none, two one-hot charge columns, an explicit charge
\* column beside a one-hot one, two one-hot columns for one charge state
PercFeatureLists ==
    { <<>>,
      << <<"C", "h", "a", "r", "g", "e", "2">>, <<"C", "h", "a", "r", "g", "e", "3">> >>,
      << ChargeColumnUpper, <<"C", "h", "a", "r", "g", "e", "2">> >>,
      << <<"C", "h", "a", "r", "g", "e", "2">>, <<"c", "h", "a", "r", "g", "e", "0", "2">> >> }

\* The values a PSM has for the two features
ValuePatterns == { << <<"1">>, <<"0">> >>, << <<"0">>, <<"1">> >>, << <<"2">>, <<"0">> >> }

PercProteinLists ==
    { <<>>, << <<"P", "1">> >>, << <<"P", "1">>, <<"P", "2">>, <<"P", "3">> >> }

SpectrumIdTexts == << <<"s", "1">>, <<"s", "2">>, <<"s", "3">>, <<"s", "4">> >>

PercScores == {None, float(<<"0", ".", "5">>)}

PercPsm(i, names, values, proteins, sc) ==
    [peptidoform |-> <<"A", "K", "/", "2">>,
     spectrum_id |-> SpectrumIdTexts[i],
     is_decoy |-> DecoyValues[((i - 1) % 3) + 1],
     score |-> sc,
     qvalue |-> None,
     pep |-> None,
     protein_list |-> proteins,
     rescoring_features |-> [j \in 1..Len(names) |-> [key |-> names[j], value |-> values[j]]]]

\* PercolatorTabWriter(filename, style, feature_names).write_file(psm_list) is
\* entered; a pout file is written from PSMs with or without score, a pin
\* file with the feature names of the PSMs or with none
InitPercolator ==
    /\ TranslateIdle /\ DocIdle /\ ReaderIdle /\ UpdateIdle /\ CreateIdle /\ SessionIdle /\ RestartIdle
    /\ style \in {"pin", "pout"}
    /\ \E names \in PercFeatureLists, n \in 1..MaxRows :
          /\ style = "pout" => names = <<>>
          /\ feature_names \in {names, <<>>}
          /\ \E rows \in [1..n -> [values : IF names = <<>> THEN {<<>>} ELSE ValuePatterns,
                                   proteins : PercProteinLists,
                                   score : IF style = "pout" THEN PercScores
                                           ELSE {float(<<"0", ".", "5">>)}]] :
                perc_psms = [i \in 1..n |->
                                PercPsm(i, names, rows[i].values, rows[i].proteins,
                                        rows[i].score)]
    /\ file = <<>>
    /\ w_i = 0
    /\ fieldnames = <<>>
    /\ id_column = None
    /\ charge_column = None
    /\ charge_onehot_columns = <<>>
    /\ score_column = None
    /\ number_of_columns = 0
    /\ dict_fieldnames = <<>>
    /\ line_i = 0
    /\ entry = <<>>
    /\ entry_charge = <<>>
    /\ yielded = <<>>
    /\ ppc = "write_file"

SpecPercolator == InitPercolator /\ [][NextPercolator]_vars

\* The PSM whose row the reader has parsed last
RowPsm == perc_psms[line_i - 2]

\* C6: a protein list of 0, 1 or 3 accessions packed into a written row and
\* unpacked on read is the same list: same length, same accessions, same
\* order
C6_ProteinListRoundTrip ==
    yielded # <<>> =>
        (Len(RowPsm.protein_list) \in {0, 1, 3}
            => yielded[1].protein_list = RowPsm.protein_list)

\* The columns of the written file, as the header names them in lower case
RowColumns == [j \in 1..Len(Columns(style, feature_names)) |->
                  lower(Columns(style, feature_names)[j])]

\* What the row of the last parsed PSM holds in column j
RowHolds(j) == CsvField(DictRow(Columns(style, feature_names),
                                _psm_to_entry(style, RowPsm))[j])

ExplicitColumns == {j \in 1..Len(RowColumns) : RowColumns[j] = ChargeColumn}
OneHotColumns == {j \in 1..Len(RowColumns) : OneHotMatch(RowColumns[j])}
MarkedColumns == {j \in OneHotColumns : RowHolds(j) = <<"1">>}

\* C7: an explicit charge column gives the charge and the one-hot columns
\* are not consulted; without it, one-hot columns of which exactly one holds
\* "1" give that column's charge; with neither kind of column the charge is
\* unknown and the parsed peptide has no "/n" suffix
C7_ChargeResolution ==
    yielded # <<>> =>
        /\ ExplicitColumns # {} =>
              \E j \in ExplicitColumns : entry_charge = <<int(RowHolds(j))>>
        /\ (ExplicitColumns = {} /\ Cardinality(MarkedColumns) = 1) =>
              \E j \in MarkedColumns : entry_charge = <<OneHotState(RowColumns[j])>>
        /\ (ExplicitColumns = {} /\ OneHotColumns = {}) =>
              /\ entry_charge = <<>>
              /\ SlashFrom(yielded[1].peptidoform, Len(yielded[1].peptidoform)) = 0

\* C7 as the code has it: the one-hot columns stand for different charge
\* states, and with neither kind of column no suffix is added to the peptide
\* as the file gives it
C7_ChargeResolutionAmended ==
    yielded # <<>> =>
        /\ ExplicitColumns # {} =>
              \E j \in ExplicitColumns : entry_charge = <<int(RowHolds(j))>>
        /\ (/\ ExplicitColumns = {}
            /\ Cardinality(MarkedColumns) = 1
            /\ \A j, k \in OneHotColumns :
                  j # k => OneHotState(RowColumns[j]) # OneHotState(RowColumns[k])) =>
              \E j \in MarkedColumns : entry_charge = <<OneHotState(RowColumns[j])>>
        /\ (ExplicitColumns = {} /\ OneHotColumns = {}) =>
              /\ entry_charge = <<>>
              /\ yielded[1].peptidoform = FlankStripped(DictGet(entry, PoutPeptide))

\* A row without explicit charge column whose one-hot column of charge 3
\* alone holds "1" has been parsed
C7_Witness ==
    /\ yielded # <<>>
    /\ ExplicitColumns = {}
    /\ Cardinality(OneHotColumns) = 2
    /\ Cardinality(MarkedColumns) = 1
    /\ entry_charge = <<3>>
    /\ yielded[1].peptidoform = <<".", "A", "K", ".", "/", "3">>

\* C14: the peptide field of a written row, pin or pout, is the bare
\* peptide of the PSM with nothing around it, and the reader gives back the
\* PSM's peptide sequence and modifications
C14_PeptideBare ==
    yielded # <<>> =>
        /\ DictGet(entry, PoutPeptide) \in {RowPsm.peptidoform,
                                            PeptidoformSequence(RowPsm.peptidoform)}
        /\ PeptidoformSequence(yielded[1].peptidoform)
              = PeptidoformSequence(RowPsm.peptidoform)

(***************************************************************************)
(* PercolatorTabWriter as a context manager: enter, write_psm and exit on  *)
(* one writer and one target.  A caller enters the writer with a with      *)
(* statement, which calls __exit__ when its block ends or raises, and not  *)
(* when __enter__ itself raises; the writer is not entered again inside    *)
(* its own block.  The target holds what the closed handles have written.  *)
(***************************************************************************)

\* _PercolatorTabIO.close on handle h
Close(hs, h) == hs \ {h}

\* line.strip().split("\t") of the first line of a file read in text mode
HeaderFieldnames(line) == split(strip(UniversalNewline(line)), <<"\t">>)

\* The field names __enter__ always takes from the writer's configuration
SessionFieldnames_configured(existed, f, columns) == columns

\* The field names __enter__ gives the csv.DictWriter
SessionFieldnames(existed, f, columns) ==
    IF existed THEN HeaderFieldnames(f[1]) ELSE columns

\* csv.DictWriter(f, fieldnames=fieldnames, ...) and its field names
DictWriter(f, names) == <<"DictWriter", f, names>>
DictWriterFieldnames(w) == w[3]

\* write_psm that passes over the missing csv.DictWriter
write_psm_silent(w, f, e) ==
    IF w = None
    THEN [raised |-> "none", file |-> f]
    ELSE [raised |-> "none",
          file |-> Append(f, IOWrite(CsvRow(DictRow(DictWriterFieldnames(w), e))))]

\* PercolatorTabWriter.write_psm with the entry e of the PSM: without a
\* csv.DictWriter the AttributeError becomes a PSMUtilsIOException
write_psm(w, f, e) ==
    IF w = None
    THEN [raised |-> "PSMUtilsIOException", file |-> f]
    ELSE [raised |-> "none",
          file |-> Append(f, IOWrite(CsvRow(DictRow(DictWriterFieldnames(w), e))))]

MaxCalls == 5

\* PercolatorTabWriter.__enter__: the handle is opened first; an existing
\* target without a line raises ValueError, a new target gets the header
Enter ==
    /\ ppc = "session"
    /\ n_calls < MaxCalls
    /\ scope = "out"
    /\ LET file_existed == is_file
           h == <<"handle", n_opened + 1>>
       IN  /\ n_opened' = n_opened + 1
           /\ handles' = handles \cup {h}
           /\ _open_file' = h
           /\ is_file' = TRUE
           /\ IF file_existed /\ file = <<>>
              THEN /\ raised' = "ValueError"
                   /\ scope' = "out"
                   /\ UNCHANGED <<_writer, file>>
              ELSE /\ _writer' = DictWriter(h, SessionFieldnames(file_existed, file,
                                                                 Columns(style, feature_names)))
                   /\ file' = IF file_existed THEN file
                              ELSE <<IOWrite(CsvRow(Columns(style, feature_names)))>>
                   /\ raised' = "none"
                   /\ scope' = "in"
    /\ called' = "enter"
    /\ n_calls' = n_calls + 1
    /\ UNCHANGED <<before, style, feature_names, perc_psms, w_i, ppc, reader_vars, not_svars>>

\* PercolatorTabWriter.write_psm of the next PSM, inside a with block or not
WritePsm ==
    /\ ppc = "session"
    /\ n_calls < MaxCalls
    /\ LET r == write_psm(_writer, file, _psm_to_entry(style, perc_psms[w_i])) IN
          /\ file' = r.file
          /\ raised' = r.raised
          /\ w_i' = IF r.raised = "none" THEN w_i + 1 ELSE w_i
    /\ called' = "write_psm"
    /\ n_calls' = n_calls + 1
    /\ UNCHANGED <<before, is_file, _open_file, _writer, handles, n_opened, scope, style,
                   feature_names, perc_psms, ppc, reader_vars, not_svars>>

\* write_psm inside a with block when the write to the file raises OSError:
\* nothing is written and the with statement calls __exit__
WritePsmRaises ==
    /\ ppc = "session"
    /\ n_calls < MaxCalls
    /\ scope = "in"
    /\ raised' = "OSError"
    /\ handles' = Close(handles, _open_file)
    /\ _open_file' = None
    /\ _writer' = None
    /\ scope' = "out"
    /\ called' = "write_psm"
    /\ n_calls' = n_calls + 1
    /\ UNCHANGED <<before, is_file, n_opened, style, feature_names, perc_psms, file, w_i, ppc,
                   reader_vars, not_svars>>

\* PercolatorTabWriter.__exit__ at the end of the with block
Exit ==
    /\ ppc = "session"
    /\ n_calls < MaxCalls
    /\ scope = "in"
    /\ handles' = Close(handles, _open_file)
    /\ _open_file' = None
    /\ _writer' = None
    /\ scope' = "out"
    /\ raised' = "none"
    /\ called' = "exit"
    /\ n_calls' = n_calls + 1
    /\ UNCHANGED <<before, is_file, n_opened, style, feature_names, perc_psms, file, w_i, ppc,
                   reader_vars, not_svars>>

\* PercolatorTabWriter.__exit__ called outside a with block: None has no
\* close; a handle that a failed __enter__ left behind is closed
ExitOutside ==
    /\ ppc = "session"
    /\ n_calls < MaxCalls
    /\ scope = "out"
    /\ IF _open_file = None
       THEN /\ raised' = "AttributeError"
            /\ UNCHANGED <<handles, _open_file, _writer>>
       ELSE /\ handles' = Close(handles, _open_file)
            /\ _open_file' = None
            /\ _writer' = None
            /\ raised' = "none"
    /\ called' = "exit"
    /\ n_calls' = n_calls + 1
    /\ UNCHANGED <<before, is_file, n_opened, scope, style, feature_names, perc_psms, file,
                   w_i, ppc, reader_vars, not_svars>>

NextSession ==
    \/ Enter
    \/ WritePsm
    \/ WritePsmRaises
    \/ Exit
    \/ ExitOutside

\* The configurations of a writer: pin without features, pin with two
\* one-hot charge columns, pout
SessionConfigs ==
    { [style |-> "pin", feature_names |-> <<>>],
      [style |-> "pin",
       feature_names |-> << <<"C", "h", "a", "r", "g", "e", "2">>,
                            <<"C", "h", "a", "r", "g", "e", "3">> >>],
      [style |-> "pout", feature_names |-> <<>>] }

\* The PSMs handed to write_psm: each with the two charge features, the
\* protein lists of no, one and three accessions in turn from offset on
SessionPsm(i, offset) ==
    PercPsm(((i - 1) % 4) + 1,
            << <<"C", "h", "a", "r", "g", "e", "2">>, <<"C", "h", "a", "r", "g", "e", "3">> >>,
            IF i % 2 = 1 THEN << <<"1">>, <<"0">> >> ELSE << <<"0">>, <<"1">> >>,
            CASE (i + offset) % 3 = 0 -> <<>>
              [] (i + offset) % 3 = 1 -> << <<"P", "1">> >>
              [] OTHER -> << <<"P", "1">>, <<"P", "2">>, <<"P", "3">> >>,
            float(<<"0", ".", "5">>))

\* A target an earlier writer of configuration c has left: its header,
\* followed by rows PSMs or not
TargetOf(c, rows) ==
    <<IOWrite(CsvRow(Columns(c.style, c.feature_names)))>>
    \o [i \in 1..rows |->
           IOWrite(CsvRow(DictRow(Columns(c.style, c.feature_names),
                                  _psm_to_entry(c.style, SessionPsm(4, i)))))]

\* The target before the first call: absent, an empty file, or the file of
\* an earlier writer
SessionTargets ==
    { [is_file |-> FALSE, file |-> <<>>], [is_file |-> TRUE, file |-> <<>>] }
    \cup { [is_file |-> TRUE, file |-> TargetOf(c, rows)] : c \in SessionConfigs, rows \in 0..1 }

\* PercolatorTabWriter(filename, style, feature_names) is constructed
InitSession ==
    /\ TranslateIdle /\ DocIdle /\ ReaderIdle /\ UpdateIdle /\ CreateIdle /\ RestartIdle
    /\ \E c \in SessionConfigs :
          /\ style = c.style
          /\ feature_names = c.feature_names
    /\ \E offset \in 0..2 : perc_psms = [i \in 1..MaxCalls |-> SessionPsm(i, offset)]
    /\ before \in SessionTargets
    /\ is_file = before.is_file
    /\ file = before.file
    /\ w_i = 1
    /\ _open_file = None
    /\ _writer = None
    /\ handles = {}
    /\ n_opened = 0
    /\ scope = "out"
    /\ called = "none"
    /\ raised = "none"
    /\ n_calls = 0
    /\ fieldnames = <<>>
    /\ id_column = <<>>
    /\ charge_column = <<>>
    /\ charge_onehot_columns = <<>>
    /\ score_column = <<>>
    /\ number_of_columns = 0
    /\ dict_fieldnames = <<>>
    /\ line_i = 0
    /\ entry = <<>>
    /\ entry_charge = <<>>
    /\ yielded = <<>>
    /\ ppc = "session"

SpecSession == InitSession /\ [][NextSession]_vars

\* C11: write_psm writes a row only inside a with block of the writer; called
\* before the first enter or after an exit it raises an error and leaves the
\* target as it was
C11_WriteOnlyInScope ==
    [][(called' = "write_psm" /\ n_calls' = n_calls + 1) =>
          /\ file' # file => (scope = "in" /\ Len(file') = Len(file) + 1)
          /\ scope = "out" => (raised' # "none" /\ file' = file /\ is_file' = is_file)]_vars

\* A write_psm before the first enter has raised, and one after an exit
C11_Witness ==
    /\ called = "write_psm"
    /\ scope = "out"
    /\ raised = "PSMUtilsIOException"
    /\ n_opened = 1
    /\ w_i = 2

\* C12: when no with block of the writer is open no file handle is open,
\* however the block has ended: by its exit, by an error of a write inside
\* it, or by an error of the entry
C12_HandlesClosed ==
    (ppc = "session" /\ scope = "out") => handles = {}

\* The fields of a written line: split at the tabs, the line break left out
LineFields(line) == split(SubSeq(line, 1, Len(line) - 2), <<"\t">>)

\* What the PSM p holds under the column name, as text
ValueText(p, name) ==
    LET e == _psm_to_entry(style, p) IN
    IF DictHas(e, name) THEN CsvField(DictGet(e, name)) ELSE <<>>

\* The line holds the values of p in the order of names, the fields from the
\* last name on being its protein list
RowFollows(line, names, p) ==
    LET fields == LineFields(line)
        n == Len(names)
    IN  /\ Len(fields) >= n
        /\ \A j \in 1..(n - 1) : fields[j] = ValueText(p, names[j])
        /\ Join(SubSeq(fields, n, Len(fields)), ProteinSeparator) = ValueText(p, names[n])

\* C13: a target that did not exist gets the configured header first and
\* once; an existing target gets no header and keeps its lines; every row
\* written is in the column order of the target's first line, so that the
\* target holds one header line and rows of its width and order
C13_HeaderStable ==
    (ppc = "session" /\ file # <<>>) =>
        LET header == IF before.is_file THEN before.file[1]
                      ELSE Join(Columns(style, feature_names), <<"\t">>) \o <<"\r", "\n">>
            first == Len(file) - (w_i - 1)
        IN  /\ file[1] = header
            /\ \A k \in 2..Len(file) : file[k] # header
            /\ first = IF before.is_file THEN Len(before.file) ELSE 1
            /\ SubSeq(file, 1, Len(before.file)) = before.file
            /\ \A i \in 1..(w_i - 1) :
                  RowFollows(file[first + i], LineFields(header), perc_psms[i])

\* A pin writer with feature names has written a row in each of two with
\* blocks to a target that held a pout header
C13_Witness ==
    /\ ppc = "session"
    /\ before.is_file
    /\ style = "pin"
    /\ feature_names # <<>>
    /\ file # <<>>
    /\ LineFields(file[1]) = Columns("pout", <<>>)
    /\ n_opened = 2
    /\ w_i = 3
    /\ Len(file) = Len(before.file) + 2

(***************************************************************************)
(* One reader iterated several times, the file changing between two        *)
(* iterations or not.  A for loop over the reader calls __iter__; the loop *)
(* runs to the end or is left after a PSM.                                 *)
(***************************************************************************)

MaxIterations == 2

\* IdXMLReader.__iter__ is called: both loops stand at their first element
IdXMLIterStart ==
    /\ reader_kind = "idxml"
    /\ rpc = "ready"
    /\ n_iter < MaxIterations
    /\ rec_i' = 1
    /\ hit_i' = 1
    /\ peptide_id' = [meta |-> self_peptide_ids[1].meta]
    /\ peptide_hit' = self_peptide_ids[1].hits[1]
    /\ psm' = <<>>
    /\ n_read' = 0
    /\ rpc' = "hit"
    /\ UNCHANGED <<protein_ids, rescoring_features, reader_kind, idxml_file, self_peptide_ids,
                   n_iter, tvars, uvars, cvars, pvars, svars>>

\* IdXMLReader.__iter__: the inner loop moves to the next hit of the record
HeldNextHit ==
    /\ reader_kind = "idxml"
    /\ rpc = "yielded"
    /\ hit_i < Len(self_peptide_ids[rec_i].hits)
    /\ hit_i' = hit_i + 1
    /\ peptide_hit' = self_peptide_ids[rec_i].hits[hit_i + 1]
    /\ psm' = <<>>
    /\ rpc' = "hit"
    /\ UNCHANGED <<protein_ids, rescoring_features, peptide_id, n_read, reader_kind,
                   idxml_file, self_peptide_ids, rec_i, n_iter,
                   tvars, uvars, cvars, pvars, svars>>

\* IdXMLReader.__iter__: the outer loop moves to the first hit of the next record
HeldNextRecord ==
    /\ reader_kind = "idxml"
    /\ rpc = "yielded"
    /\ hit_i = Len(self_peptide_ids[rec_i].hits)
    /\ rec_i < Len(self_peptide_ids)
    /\ rec_i' = rec_i + 1
    /\ hit_i' = 1
    /\ peptide_id' = [meta |-> self_peptide_ids[rec_i + 1].meta]
    /\ peptide_hit' = self_peptide_ids[rec_i + 1].hits[1]
    /\ psm' = <<>>
    /\ rpc' = "hit"
    /\ UNCHANGED <<protein_ids, rescoring_features, n_read, reader_kind, idxml_file,
                   self_peptide_ids, n_iter, tvars, uvars, cvars, pvars, svars>>

\* IdXMLReader.__iter__: both loops are exhausted
HeldEnd ==
    /\ reader_kind = "idxml"
    /\ rpc = "yielded"
    /\ hit_i = Len(self_peptide_ids[rec_i].hits)
    /\ rec_i = Len(self_peptide_ids)
    /\ rpc' = "end"
    /\ UNCHANGED <<protein_ids, rescoring_features, peptide_id, peptide_hit, psm, n_read,
                   xvars, tvars, uvars, cvars, pvars, svars>>

\* The for loop over the IdXMLReader is over: the iteration ended, or the loop
\* was left after a PSM
IdXMLLoopLeft ==
    /\ reader_kind = "idxml"
    /\ rpc \in {"yielded", "end"}
    /\ n_iter' = n_iter + 1
    /\ psm' = <<>>
    /\ rpc' = "ready"
    /\ UNCHANGED <<protein_ids, rescoring_features, peptide_id, peptide_hit, n_read,
                   reader_kind, idxml_file, self_peptide_ids, rec_i, hit_i,
                   tvars, uvars, cvars, pvars, svars>>

\* The for loop over the PercolatorTabReader is over: the iteration ended, or
\* the loop was left after a PSM
PercolatorLoopLeft ==
    /\ reader_kind = "percolator"
    /\ ppc \in {"iter", "done"}
    /\ n_iter + 1 < MaxIterations
    /\ n_iter' = n_iter + 1
    /\ yielded' = <<>>
    /\ ppc' = "reader"
    /\ UNCHANGED <<style, feature_names, perc_psms, file, w_i, fieldnames, id_column,
                   charge_column, charge_onehot_columns, score_column, number_of_columns,
                   dict_fieldnames, line_i, entry, entry_charge, reader_kind, idxml_file,
                   self_peptide_ids, rec_i, hit_i, dvars, tvars, rvars, uvars, cvars, svars>>

\* The documents of one run whose records have no meta values on their hits
RestartDocs ==
    LET pids == << [meta |-> [spectra_data |-> SubSeq(RunPathList, 1, 1)]] >> IN
    { [protein_ids |-> pids, peptide_ids |-> peps] :
        peps \in UpdateDocs(pids, "distinct", [hit_meta |-> MakeDict({})]) }

\* The file of a writer of configuration c for the protein lists given
RestartFile(c, proteins) ==
    <<IOWrite(CsvRow(Columns(c.style, c.feature_names)))>>
    \o [i \in 1..Len(proteins) |->
           IOWrite(CsvRow(DictRow(Columns(c.style, c.feature_names),
               _psm_to_entry(c.style,
                   PercPsm(i, c.feature_names,
                           [j \in 1..Len(c.feature_names) |-> IF j = 1 THEN <<"1">> ELSE <<"0">>],
                           proteins[i], float(<<"0", ".", "5">>))))))]

RestartFiles(c) ==
    UNION { { RestartFile(c, proteins) : proteins \in [1..n -> PercProteinLists] } :
            n \in 1..MaxRows }

\* Between two iterations the idXML file is written anew
IdXMLFileChanges ==
    /\ reader_kind = "idxml"
    /\ rpc = "ready"
    /\ n_iter >= 1
    /\ idxml_file' \in RestartDocs \ {idxml_file}
    /\ UNCHANGED <<dvars, rvars, reader_kind, self_peptide_ids, rec_i, hit_i, n_iter,
                   tvars, uvars, cvars, pvars, svars>>

\* Between two iterations the rows of the Percolator file are written anew,
\* under the same header
PercolatorFileChanges ==
    /\ reader_kind = "percolator"
    /\ ppc = "reader"
    /\ n_iter >= 1
    /\ file' \in RestartFiles([style |-> style, feature_names |-> feature_names]) \ {file}
    /\ UNCHANGED <<style, feature_names, perc_psms, w_i, ppc, fieldnames, id_column,
                   charge_column, charge_onehot_columns, score_column, number_of_columns,
                   dict_fieldnames, line_i, entry, entry_charge, yielded, not_pvars>>

NextRestart ==
    \/ IdXMLIterStart
    \/ IterYield
    \/ HeldNextHit
    \/ HeldNextRecord
    \/ HeldEnd
    \/ IdXMLLoopLeft
    \/ IdXMLFileChanges
    \/ IterHeader
    \/ IterRow
    \/ IterStop
    \/ PercolatorLoopLeft
    \/ PercolatorFileChanges

\* IdXMLReader(filename) is constructed on a document
InitRestartIdXML ==
    /\ reader_kind = "idxml"
    /\ idxml_file \in RestartDocs
    /\ protein_ids = idxml_file.protein_ids
    /\ self_peptide_ids = idxml_file.peptide_ids
    /\ rescoring_features = _get_rescoring_features(idxml_file.peptide_ids[1].hits[1])
    /\ peptide_id = [meta |-> <<>>]
    /\ peptide_hit = [meta |-> <<>>]
    /\ psm = <<>>
    /\ n_read = 0
    /\ rpc = "ready"
    /\ rec_i = 0
    /\ hit_i = 0
    /\ n_iter = 0
    /\ PercolatorIdle

\* PercolatorTabReader(filename) is constructed on a file a writer has left
InitRestartPercolator ==
    /\ reader_kind = "percolator"
    /\ \E c \in SessionConfigs :
          /\ style = c.style
          /\ feature_names = c.feature_names
          /\ file \in RestartFiles(c)
    /\ perc_psms = <<>>
    /\ w_i = 0
    /\ fieldnames = _read_header(file)
    /\ id_column = fieldnames[1]
    /\ charge_column = _infer_charge_columns(fieldnames).charge_column
    /\ charge_onehot_columns = _infer_charge_columns(fieldnames).charge_onehot_columns
    /\ score_column = IF In(ScoreColumn, fieldnames) THEN ScoreColumn ELSE None
    /\ number_of_columns = 0
    /\ dict_fieldnames = <<>>
    /\ line_i = 0
    /\ entry = <<>>
    /\ entry_charge = <<>>
    /\ yielded = <<>>
    /\ ppc = "reader"
    /\ idxml_file = [protein_ids |-> <<>>, peptide_ids |-> <<>>]
    /\ self_peptide_ids = <<>>
    /\ rec_i = 0
    /\ hit_i = 0
    /\ n_iter = 0
    /\ DocIdle /\ ReaderIdle

InitRestart ==
    /\ TranslateIdle /\ UpdateIdle /\ CreateIdle /\ SessionIdle
    /\ InitRestartIdXML \/ InitRestartPercolator

SpecRestart == InitRestart /\ [][NextRestart]_vars

\* The PSM a reader constructed on document doc now yields for hit j of
\* record i
FreshPsm(doc, i, j) ==
    _parse_psm(_get_rescoring_features(doc.peptide_ids[1].hits[1]), doc.protein_ids,
               [meta |-> doc.peptide_ids[i].meta], doc.peptide_ids[i].hits[j])

\* The PSM a reader constructed on file f now yields for line k
FreshRow(f, k) ==
    LET names == _read_header(f)
        cols == _infer_charge_columns(names)
        ncols == Len(split(UniversalNewline(f[1]), <<"\t">>))
        e == ZipEntry(CsvParse(IOLine(0, UniversalNewline(f[1]), 0)),
                      CsvParse(IOLine(k - 1, UniversalNewline(f[k]), ncols)))
    IN  _parse_entry(cols.charge_column, cols.charge_onehot_columns,
                     IF In(ScoreColumn, names) THEN ScoreColumn ELSE None, names[1], e)

\* C15: every iteration of a reader yields what its file holds at the time,
\* PSM by PSM and to the end: the same as before for a file left alone, the
\* new content for a file changed between two iterations, also after an
\* iteration that was left early; for IdXMLReader and PercolatorTabReader
C15_Restartable ==
    /\ (reader_kind = "idxml" /\ psm # <<>>) =>
          /\ rec_i <= Len(idxml_file.peptide_ids)
          /\ hit_i <= Len(idxml_file.peptide_ids[rec_i].hits)
          /\ psm[1] = FreshPsm(idxml_file, rec_i, hit_i)
    /\ (reader_kind = "idxml" /\ rpc = "end") =>
          /\ rec_i = Len(idxml_file.peptide_ids)
          /\ hit_i = Len(idxml_file.peptide_ids[rec_i].hits)
    /\ (reader_kind = "percolator" /\ yielded # <<>>) =>
          yielded[1] = FreshRow(file, line_i - 1)
    /\ (reader_kind = "percolator" /\ ppc = "done") => line_i = Len(file) + 1

(***************************************************************************)
(* Files with a PSM named DefaultDirection in the first or a later row,    *)
(* written by PercolatorTabWriter.write_file and read back.                *)
(***************************************************************************)

InitDirection ==
    /\ TranslateIdle /\ DocIdle /\ ReaderIdle /\ UpdateIdle /\ CreateIdle /\ SessionIdle
    /\ RestartIdle
    /\ style \in {"pin", "pout"}
    /\ feature_names = <<>>
    /\ \E n \in 1..MaxRows :
          \E rows \in [1..n -> [marker : BOOLEAN, proteins : PercProteinLists]] :
             perc_psms = [i \in 1..n |->
                             [PercPsm(i, <<>>, <<>>, rows[i].proteins, float(<<"0", ".", "5">>))
                                 EXCEPT !.spectrum_id = IF rows[i].marker THEN DefaultDirection
                                                        ELSE SpectrumIdTexts[i]]]
    /\ file = <<>>
    /\ w_i = 0
    /\ fieldnames = <<>>
    /\ id_column = None
    /\ charge_column = None
    /\ charge_onehot_columns = <<>>
    /\ score_column = None
    /\ number_of_columns = 0
    /\ dict_fieldnames = <<>>
    /\ line_i = 0
    /\ entry = <<>>
    /\ entry_charge = <<>>
    /\ yielded = <<>>
    /\ ppc = "write_file"

SpecDirection == InitDirection /\ [][NextPercolator]_vars

\* The line begins with the marker
BeginsWithMarker(line) ==
    Len(line) >= Len(DefaultDirection)
        /\ SubSeq(line, 1, Len(DefaultDirection)) = DefaultDirection

\* C17: the line right after the header yields no PSM when it begins with
\* DefaultDirection; every other line after the header yields its PSM, also
\* one named DefaultDirection further down
C17_DefaultDirectionSkipped ==
    (ppc = "iter" /\ line_i > 2) =>
        IF line_i - 1 = 2 /\ BeginsWithMarker(file[2])
        THEN yielded = <<>>
        ELSE /\ yielded # <<>>
             /\ yielded[1].spectrum_id = RowPsm.spectrum_id

(***************************************************************************)
(* Transcoding of one hit: read (native to interchange), write back        *)
(* (interchange to native), read again.                                    *)
(***************************************************************************)

InitTranslate ==
    /\ DocIdle /\ ReaderIdle /\ UpdateIdle /\ CreateIdle /\ PercolatorIdle /\ SessionIdle /\ RestartIdle
    /\ sequence \in NativeSequences
    /\ charge \in 1..MaxCharge
    /\ peptidoform = NoText
    /\ unimod = NoText
    /\ reparsed = NoText
    /\ tpc = "hit"

\* IdXMLReader._parse_psm: peptidoform of the hit
ParsePeptidoform ==
    /\ tpc = "hit"
    /\ peptidoform' = _parse_peptidoform(sequence, charge)
    /\ tpc' = "psm"
    /\ UNCHANGED <<sequence, charge, unimod, reparsed, not_tvars>>

\* IdXMLWriter._create_new_ids: the hit's sequence written back
ConvertProformaToUnimod ==
    /\ tpc = "psm"
    /\ unimod' = _convert_proforma_to_unimod(PeptidoformSequence(peptidoform))
    /\ tpc' = "written"
    /\ UNCHANGED <<sequence, charge, peptidoform, reparsed, not_tvars>>

\* IdXMLReader._parse_psm on the written hit
ReparsePeptidoform ==
    /\ tpc = "written"
    /\ reparsed' = _parse_peptidoform(unimod, PrecursorCharge(peptidoform))
    /\ tpc' = "reread"
    /\ UNCHANGED <<sequence, charge, peptidoform, unimod, not_tvars>>

NextTranslate ==
    \/ ParsePeptidoform
    \/ ConvertProformaToUnimod
    \/ ReparsePeptidoform

SpecTranslate == InitTranslate /\ [][NextTranslate]_vars

\* C1: writing a parsed hit back gives the native string it was read from, and
\* reading that again gives the same interchange string, for peptidoforms with
\* inline and terminal modifications.
C1_RoundTrip ==
    /\ tpc \in {"written", "reread"} => unimod = sequence
    /\ tpc = "reread" => reparsed = peptidoform

(***************************************************************************)
(* Native strings whose parentheses or brackets do not balance, or nest    *)
(* deeper than the patterns reach, read by IdXMLReader._parse_psm.         *)
(***************************************************************************)

\* A modification group that does not close, does not open, or nests four deep
MalformedGroups ==
    { <<"(", "a">>, <<"a", ")">>, <<"[", "a">>, <<"a", "]">>,
      <<"(", "a", "(", "b", ")">>, <<")", "(">>,
      <<"(", "(", "(", "(", "a", ")", ")", ")", ")">>,
      <<"[", "[", "[", "[", "a", "]", "]", "]", "]">> }

MalformedSequences ==
    { pre \o <<"K">> \o g \o post :
        pre \in {<<>>, <<"A">>, <<".", "(", "n", ")">>},
        g \in MalformedGroups,
        post \in {<<>>, <<"A">>} }
    \cup { <<".", "[", "a", "K">>, <<"K", ".", "[", "a">>,
           <<".", "[", "[", "[", "[", "a", "]", "]", "]", "]", "K">>,
           <<"K", ".", "[", "[", "[", "[", "a", "]", "]", "]", "]">> }

InitMalformed ==
    /\ DocIdle /\ ReaderIdle /\ UpdateIdle /\ CreateIdle /\ PercolatorIdle /\ SessionIdle
    /\ RestartIdle
    /\ sequence \in MalformedSequences
    /\ charge \in 1..MaxCharge
    /\ peptidoform = NoText
    /\ unimod = NoText
    /\ reparsed = NoText
    /\ tpc = "hit"

SpecMalformed == InitMalformed /\ [][ParsePeptidoform]_vars

\* Nesting depth of open and close after the first k characters of s, or -1
\* once a close has come without its open
RECURSIVE DepthAfter(_, _, _, _)
DepthAfter(s, k, open, close) ==
    IF k = 0 THEN 0
    ELSE LET d == DepthAfter(s, k - 1, open, close) IN
         IF d < 0 THEN d
         ELSE IF s[k] = open THEN d + 1
         ELSE IF s[k] = close THEN d - 1
         ELSE d

\* Every open has its close and the reverse
Balanced(s, open, close) ==
    /\ \A k \in 1..Len(s) : DepthAfter(s, k, open, close) >= 0
    /\ DepthAfter(s, Len(s), open, close) = 0

\* Some group of s nests deeper than the patterns match
TooDeep(s, open, close) ==
    \E k \in 1..Len(s) : DepthAfter(s, k, open, close) > PatternDepth

\* The value that stands for the parse error of a record
MalformedNotation == <<"<MalformedNotation>">>

\* C16: a native string with unbalanced parentheses or square brackets, or
\* with a modification nested deeper than the patterns match, is translated
\* to a parse error and never to an interchange string
C16_MalformedIsError ==
    (/\ tpc = "psm"
     /\ \/ ~Balanced(sequence, "(", ")")
        \/ ~Balanced(sequence, "[", "]")
        \/ TooDeep(sequence, "(", ")")
        \/ TooDeep(sequence, "[", "]"))
    => peptidoform = MalformedNotation


====
